---- MODULE Spec2Model ----
(***************************************************************************)
(* Highlight engine of DocExtract: the box merge engine, the payload       *)
(* normalizer, the coordinate transform and the hover/click controller of  *)
(* the workspace page, modelled from                                       *)
(*   src/src/components/workspace/HighlightOverlay.tsx (second component), *)
(*   src/src/pages/Workspace.tsx, src/unnamed/part_008 (PDF viewer) and    *)
(*   src/unnamed/part_006 (ExtractionProvider).                            *)
(*                                                                         *)
(* Numbers.  Source boxes are integers.  The two ratios of boxesOverlap    *)
(* (0.6 and 0.5) are kept exact by scaling both sides of each comparison   *)
(* (by 10 and by 2).  Emitted rectangles are in hundredths of a pixel, so  *)
(* that a zoom of z percent is the exact factor z/100.                     *)
(***************************************************************************)
EXTENDS Integers, Sequences, FiniteSets, TLC

VARIABLES
    \* ---- box merge engine (SpecMerge)
    boxes,        \* the argument of mergeBoxes
    merged,       \* mergeBoxes(boxes)
    remerged,     \* mergeBoxes(merged)
    mpc,          \* "input" | "merged" | "remerged" | "idle"
    \* ---- payload normalizer (SpecNorm)
    payload,      \* the boundingBoxes object handed to buildIndexLookup
    lookup,       \* what buildIndexLookup returned: [threw, map]
    npc,          \* "input" | "done" | "idle"
    \* ---- line-based highlights (SpecLine)
    lineProps,    \* the props of a HighlightOverlay given line numbers
    lineRects,    \* the activeHighlights it computed
    lineScroll,   \* the scrollTo the line-based viewer issued, if any
    memos,        \* the other memos of that render (SpecOverlay)
    lpc,          \* "input" | "done" | "scrolled" | "rendered" | "idle"
    \* ---- highlight selection controller (Spec)
    selectedWordIndexes,  \* Workspace state
    activeHighlightId,    \* Workspace state
    timers,               \* pending setTimeout callbacks: [kind, left]
    zoom,                 \* PDFViewerWrapper state, in percent
    pageMetadata,         \* PDFViewerWrapper state
    pagesLoaded,          \* PDFViewerWrapper state
    rendering,            \* "loading" | "effect" | "rendering" | "idle"
    clickedHighlightId,   \* HighlightOverlay state
    pulseHighlightId,     \* HighlightOverlay state
    scrollRequest,        \* the scrollTo issued by the last step, if any
    \* ---- file switching (SpecFile)
    selectedFileId,       \* Workspace state
    providerFileId,       \* ExtractionProvider state selectedFileId
    isSwitchingFile,      \* Workspace state
    hoveredBoundingBox,   \* Workspace state
    activeBoundingBox,    \* Workspace state
    effectDue,            \* the file-change effect of Workspace is to run
    loadState,            \* loadPDF: "loading" | "document" | "loaded" | "failed" | "idle"
    error,                \* PDFViewerWrapper state: the load failed
    numPages,             \* PDFViewerWrapper state totalPages
    mapFile,              \* the document wordIndexToPageMapRef was built from
    pageLookup            \* what the getPageForWordIndex of this step read, if any

mergeVars == <<boxes, merged, remerged, mpc>>
normVars == <<payload, lookup, npc>>
lineVars == <<lineProps, lineRects, lineScroll, memos, lpc>>
ctlVars == <<selectedWordIndexes, activeHighlightId, timers, zoom, pageMetadata,
             pagesLoaded, rendering, clickedHighlightId, pulseHighlightId,
             scrollRequest>>
fileVars == <<selectedFileId, providerFileId, isSwitchingFile,
              hoveredBoundingBox, activeBoundingBox, effectDue, loadState,
              error, numPages, mapFile, pageLookup>>
vars == <<boxes, merged, remerged, mpc, payload, lookup, npc,
          lineProps, lineRects, lineScroll, memos, lpc,
          selectedWordIndexes, activeHighlightId, timers, zoom, pageMetadata,
          pagesLoaded, rendering, clickedHighlightId, pulseHighlightId,
          scrollRequest, selectedFileId, providerFileId, isSwitchingFile,
          hoveredBoundingBox, activeBoundingBox, effectDue, loadState,
          error, numPages, mapFile, pageLookup>>

Abs(n) == IF n < 0 THEN -n ELSE n
Min(a, b) == IF a <= b THEN a ELSE b
Max(a, b) == IF a >= b THEN a ELSE b

\* The page numbers records are drawn from.
Pages == {1, 2}

(***************************************************************************)
(* Box merge engine                                                        *)
(***************************************************************************)

\* |y1 - y2| <= max(h1, h2) * 0.6, the "same line" test shared by the sort
\* comparator and by boxesOverlap; both sides multiplied by 10.
SameLine(a, b) == 10 * Abs(a.y - b.y) <= 6 * Max(a.height, b.height)

\* boxesOverlap with the vertical test made on the centers of the boxes.
boxesOverlapOnCenters(box1, box2) ==
    LET gap2 == Min(box1.height, box2.height)
    IN  /\ 2 * box1.x <= 2 * (box2.x + box2.width) + gap2
        /\ 2 * (box1.x + box1.width) + gap2 >= 2 * box2.x
        /\ 10 * Abs((2 * box1.y + box1.height) - (2 * box2.y + box2.height))
              <= 12 * Max(box1.height, box2.height)

\* boxesOverlap(box1, box2, gapRatio = 0.5); gap = min(h1, h2) * 0.5, the
\* horizontal comparisons multiplied by 2.
boxesOverlap(box1, box2) ==
    LET gap2 == Min(box1.height, box2.height)
        horizontalOverlap ==
            /\ 2 * box1.x <= 2 * (box2.x + box2.width) + gap2
            /\ 2 * (box1.x + box1.width) + gap2 >= 2 * box2.x
        verticalOverlap == SameLine(box1, box2)
    IN  horizontalOverlap /\ verticalOverlap

\* The comparator of the per-page sort: negative when a goes before b.
compareBoxes(a, b) ==
    IF ~SameLine(a, b) THEN a.y - b.y ELSE a.x - b.x

\* Array.prototype.sort with compareBoxes: a stable insertion sort (the
\* order every conforming engine gives when the comparator is consistent
\* on the input).
RECURSIVE InsertSorted(_, _)
InsertSorted(s, b) ==
    IF s = <<>> THEN <<b>>
    ELSE IF compareBoxes(s[Len(s)], b) <= 0 THEN Append(s, b)
    ELSE Append(InsertSorted(SubSeq(s, 1, Len(s) - 1), b), s[Len(s)])

RECURSIVE SortBoxes(_)
SortBoxes(s) ==
    IF s = <<>> THEN <<>>
    ELSE InsertSorted(SortBoxes(SubSeq(s, 1, Len(s) - 1)), s[Len(s)])

\* The bounding union built inside the merge loop.
UnionBox(c, b) ==
    LET minX == Min(c.x, b.x)
        minY == Min(c.y, b.y)
        maxX == Max(c.x + c.width, b.x + b.width)
        maxY == Max(c.y + c.height, b.y + b.height)
    IN  [x |-> minX, y |-> minY, width |-> maxX - minX, height |-> maxY - minY]

StripPage(b) == [x |-> b.x, y |-> b.y, width |-> b.width, height |-> b.height]

\* boxesByPage: the keys of the Map in insertion order.
RECURSIVE PagesInOrder(_)
PagesInOrder(bs) ==
    IF bs = <<>> THEN <<>>
    ELSE LET rest == PagesInOrder(SubSeq(bs, 1, Len(bs) - 1))
             p == bs[Len(bs)].page
         IN  IF \E k \in 1..Len(rest) : rest[k] = p THEN rest ELSE Append(rest, p)

\* A grouping that puts every box under every page.
RECURSIVE BoxesOfAnyPage(_, _)
BoxesOfAnyPage(bs, p) ==
    IF bs = <<>> THEN <<>>
    ELSE Append(BoxesOfAnyPage(SubSeq(bs, 1, Len(bs) - 1), p),
                StripPage(bs[Len(bs)]))

RECURSIVE BoxesOfPage(_, _)
BoxesOfPage(bs, p) ==
    IF bs = <<>> THEN <<>>
    ELSE LET rest == BoxesOfPage(SubSeq(bs, 1, Len(bs) - 1), p)
             b == bs[Len(bs)]
         IN  IF b.page = p THEN Append(rest, StripPage(b)) ELSE rest

\* One run of "for (let j = i + 1; ...)": the boxes after i that are not yet
\* processed and overlap the growing currentBox are folded into it.
RECURSIVE ScanFrom(_, _, _, _)
ScanFrom(sorted, cur, processed, j) ==
    IF j > Len(sorted)
    THEN [cur |-> cur, processed |-> processed, mergedAny |-> FALSE]
    ELSE IF j \in processed \/ ~boxesOverlap(cur, sorted[j])
    THEN ScanFrom(sorted, cur, processed, j + 1)
    ELSE LET r == ScanFrom(sorted, UnionBox(cur, sorted[j]),
                           processed \cup {j}, j + 1)
         IN  [r EXCEPT !.mergedAny = TRUE]

\* "while (mergedAny)": rescan from i + 1 until a pass merges nothing.
RECURSIVE GrowBox(_, _, _, _)
GrowBox(sorted, cur, processed, i) ==
    LET r == ScanFrom(sorted, cur, processed, i + 1)
    IN  IF r.mergedAny THEN GrowBox(sorted, r.cur, r.processed, i) ELSE r

\* The number of runs of the "while (mergedAny)" body for one i.
RECURSIVE PassesOfGrow(_, _, _, _)
PassesOfGrow(sorted, cur, processed, i) ==
    LET r == ScanFrom(sorted, cur, processed, i + 1)
    IN  IF r.mergedAny THEN 1 + PassesOfGrow(sorted, r.cur, r.processed, i) ELSE 1

\* The loops of one page, counted: merges is the number of times the body
\* of "if (boxesOverlap(...))" ran (each adds one j to processed), passes the
\* number of runs of the while body, outputs the number of pushes.
RECURSIVE LoopCounts(_, _, _, _)
LoopCounts(sorted, i, processed, acc) ==
    IF i > Len(sorted) THEN acc
    ELSE IF i \in processed THEN LoopCounts(sorted, i + 1, processed, acc)
    ELSE LET r == GrowBox(sorted, sorted[i], processed \cup {i}, i)
         IN  LoopCounts(sorted, i + 1, r.processed,
                [merges |-> acc.merges + Cardinality(r.processed)
                                       - Cardinality(processed \cup {i}),
                 passes |-> acc.passes
                            + PassesOfGrow(sorted, sorted[i], processed \cup {i}, i),
                 outputs |-> acc.outputs + 1])

\* The id string "page-<page>-highlight-<n>".
PageHighlightId(page, n) == [kind |-> "page", page |-> page, n |-> n]

\* The loop over i without "if (processed.has(i)) continue".
RECURSIVE MergePageNoSkip(_, _, _, _, _)
MergePageNoSkip(sorted, page, i, processed, acc) ==
    IF i > Len(sorted) THEN acc
    ELSE LET r == GrowBox(sorted, sorted[i], processed \cup {i}, i)
             h == [id |-> PageHighlightId(page, Len(acc)), x |-> r.cur.x, y |-> r.cur.y,
                   width |-> r.cur.width, height |-> r.cur.height, page |-> page]
         IN  MergePageNoSkip(sorted, page, i + 1, processed, Append(acc, h))

\* "for (let i = 0; ...)" of one page.
RECURSIVE MergePage(_, _, _, _, _)
MergePage(sorted, page, i, processed, acc) ==
    IF i > Len(sorted) THEN acc
    ELSE IF i \in processed THEN MergePage(sorted, page, i + 1, processed, acc)
    ELSE LET r == GrowBox(sorted, sorted[i], processed \cup {i}, i)
             h == [id |-> PageHighlightId(page, Len(acc)), x |-> r.cur.x, y |-> r.cur.y,
                   width |-> r.cur.width, height |-> r.cur.height, page |-> page]
         IN  MergePage(sorted, page, i + 1, r.processed, Append(acc, h))

RECURSIVE MergePages(_, _, _)
MergePages(bs, pages, k) ==
    IF k > Len(pages) THEN <<>>
    ELSE MergePage(SortBoxes(BoxesOfPage(bs, pages[k])), pages[k], 1, {}, <<>>)
         \o MergePages(bs, pages, k + 1)

\* An early return that also takes the single box: "boxes.length <= 1".
mergeBoxesOfSeveral(bs) ==
    IF Len(bs) <= 1 THEN <<>> ELSE MergePages(bs, PagesInOrder(bs), 1)

mergeBoxes(bs) ==
    IF Len(bs) = 0 THEN <<>> ELSE MergePages(bs, PagesInOrder(bs), 1)

(***************************************************************************)
(* Payload normalizer: buildIndexLookup                                    *)
(*                                                                         *)
(* A JSON value is a tagged record; an object's fields are a function from *)
(* the names present to values, so an absent field reads as undefined.     *)
(* Strings are non-empty (truthy).  Coordinate fields, when present and    *)
(* not null, are numbers.                                                  *)
(***************************************************************************)
Undefined == [t |-> "undefined"]
JNull == [t |-> "null"]
JStr == [t |-> "string"]
JNum(n) == [t |-> "number", v |-> n]
JObj(f) == [t |-> "object", f |-> f]
JArr(s) == [t |-> "array", a |-> s]

\* o.k for a non-nullish o.
Get(o, k) == IF o.t = "object" /\ k \in DOMAIN o.f THEN o.f[k] ELSE Undefined
IsNullish(v) == v.t \in {"null", "undefined"}
Truthy(v) ==
    IF v.t = "number" THEN v.v # 0 ELSE ~IsNullish(v)
\* typeof v === "object"
TypeofObject(v) == v.t \in {"object", "array", "null"}
\* a || b
OrElse(a, b) == IF Truthy(a) THEN a ELSE b
\* a ?? b
Coalesce(a, b) == IF IsNullish(a) THEN b ELSE a

\* x1/y1/x2/y2 of a bbox and the BoundingBox built from them.
BoxOf(bbox) ==
    LET x1 == Coalesce(Get(bbox, "x1"),
                Coalesce(Get(bbox, "x"), Coalesce(Get(bbox, "left"), JNum(0)))).v
        y1 == Coalesce(Get(bbox, "y1"),
                Coalesce(Get(bbox, "y"), Coalesce(Get(bbox, "top"), JNum(0)))).v
        x2 == Coalesce(Get(bbox, "x2"), Coalesce(Get(bbox, "right"),
                JNum(x1 + Coalesce(Get(bbox, "width"), JNum(0)).v))).v
        y2 == Coalesce(Get(bbox, "y2"), Coalesce(Get(bbox, "bottom"),
                JNum(y1 + Coalesce(Get(bbox, "height"), JNum(0)).v))).v
    IN  [x |-> Min(x1, x2), y |-> Min(y1, y2),
         width |-> Abs(x2 - x1), height |-> Abs(y2 - y1)]

\* The forEach callback with a lookup that keeps the record it already has.
WordEntryFirstWins(word, page, map) ==
    IF ~Truthy(word) \/ ~TypeofObject(word) THEN map
    ELSE IF Get(word, "index").t # "number" THEN map
    ELSE LET bbox == OrElse(Get(word, "bbox"),
                       OrElse(Get(word, "bounding_box"), JObj(<<>>)))
         IN  IF ~Truthy(bbox) \/ ~TypeofObject(bbox) THEN map
             ELSE LET b == BoxOf(bbox)
                      rec == [x |-> b.x, y |-> b.y, width |-> b.width,
                              height |-> b.height, page |-> page]
                  IN  map @@ (Get(word, "index").v :> rec)

\* The body of the forEach callbacks over a word: the lookup after it.
\* page is the page already chosen for the record.
WordEntry(word, page, map) ==
    IF ~Truthy(word) \/ ~TypeofObject(word) THEN map
    ELSE IF Get(word, "index").t # "number" THEN map
    ELSE LET bbox == OrElse(Get(word, "bbox"),
                       OrElse(Get(word, "bounding_box"), JObj(<<>>)))
         IN  IF ~Truthy(bbox) \/ ~TypeofObject(bbox) THEN map
             ELSE LET b == BoxOf(bbox)
                      rec == [x |-> b.x, y |-> b.y, width |-> b.width,
                              height |-> b.height, page |-> page]
                  IN  (Get(word, "index").v :> rec) @@ map

\* word.page || 1, then "typeof page === number ? page : 1".
WordPage(word) ==
    LET p == OrElse(Get(word, "page"), JNum(1))
    IN  IF p.t = "number" THEN p.v ELSE 1

\* page.page ?? page.index ?? 1, then "typeof pageNum === number".
PageNum(page) ==
    LET p == Coalesce(Get(page, "page"), Coalesce(Get(page, "index"), JNum(1)))
    IN  IF p.t = "number" THEN p.v ELSE 1

\* words.forEach(...) of the flat collection.
RECURSIVE FlatWords(_, _, _)
FlatWords(ws, k, map) ==
    IF k > Len(ws) THEN map
    ELSE FlatWords(ws, k + 1, WordEntry(ws[k], WordPage(ws[k]), map))

\* pageWords.forEach(...) of one page.
RECURSIVE NestedWords(_, _, _, _)
NestedWords(ws, k, pageNum, map) ==
    IF k > Len(ws) THEN map
    ELSE NestedWords(ws, k + 1, pageNum, WordEntry(ws[k], pageNum, map))

\* "x || []" followed by ".forEach": the array iterated, or a TypeError
\* when x is truthy and no array.
IterableOrThrow(x) ==
    IF ~Truthy(x) THEN [threw |-> FALSE, a |-> <<>>]
    ELSE IF x.t = "array" THEN [threw |-> FALSE, a |-> x.a]
    ELSE [threw |-> TRUE, a |-> <<>>]

\* pages.forEach(...): reading page.page of a null or undefined page
\* throws, and so does page.words.forEach for words that are no array.
RECURSIVE NestedPages(_, _, _)
NestedPages(ps, k, map) ==
    IF k > Len(ps) THEN [threw |-> FALSE, map |-> map]
    ELSE IF IsNullish(ps[k]) THEN [threw |-> TRUE, map |-> map]
    ELSE LET pw == IterableOrThrow(Get(ps[k], "words"))
         IN  IF pw.threw THEN [threw |-> TRUE, map |-> map]
             ELSE NestedPages(ps, k + 1,
                              NestedWords(pw.a, 1, PageNum(ps[k]), map))

\* buildIndexLookup(boundingBoxes) for a non-null boundingBoxes object.
\* threw: a TypeError left the function, no lookup was returned.
buildIndexLookup(bb) ==
    LET words == IterableOrThrow(Get(bb, "words"))
        pages == IterableOrThrow(Get(bb, "pages"))
    IN  IF words.threw THEN [threw |-> TRUE, map |-> <<>>]
        ELSE LET flat == FlatWords(words.a, 1, <<>>)
             IN  IF pages.threw THEN [threw |-> TRUE, map |-> <<>>]
                 ELSE LET r == NestedPages(pages.a, 1, flat)
                      IN  IF r.threw THEN [threw |-> TRUE, map |-> <<>>] ELSE r

(***************************************************************************)
(* HighlightOverlay: from props to the preview and active rectangle lists  *)
(*                                                                         *)
(* P is the props record together with the component's own state:          *)
(*   bb (boundingBoxes), selectedIndexes, activeLineNumbers,               *)
(*   zoom (currentScale = zoom / 100), meta (pageMetadata, sizes in        *)
(*   hundredths of a pixel), activeHighlightId, clickedHighlightId.        *)
(***************************************************************************)
NoId == [kind |-> "none"]

\* `highlight-${Date.now()}`: only its truthiness is ever read.
HighlightId == [kind |-> "highlight"]

\* 16px margin between pages, in hundredths.
PageMargin == 1600

\* Offsets subtracted from a scroll target, in hundredths.
PageScrollMargin == 10000
WordScrollMargin == 15000

\* The 16 that the viewer's getPageOffsets adds per page, and the bottom
\* margin the renderer gives each page canvas (class mb-4: 1rem, 16px), in
\* hundredths.
ViewerPageMargin == 1600
CanvasMarginBottom == 1600

\* Array.from(new Set(s)): first occurrences, in order.
RECURSIVE Unique(_)
Unique(s) ==
    IF s = <<>> THEN <<>>
    ELSE LET rest == Unique(SubSeq(s, 1, Len(s) - 1))
             e == s[Len(s)]
         IN  IF \E k \in 1..Len(rest) : rest[k] = e THEN rest ELSE Append(rest, e)

\* a[i] of a JSON array (0-based i).
ArrAt(b, i) == IF b.t = "array" /\ i + 1 <= Len(b.a) THEN b.a[i + 1] ELSE Undefined

\* a - b of two JSON values: NaN (falsy, here undefined) unless both are numbers.
Minus(a, b) ==
    IF a.t = "number" /\ b.t = "number" THEN JNum(a.v - b.v) ELSE Undefined

\* useNewAPI: boundingBoxes !== undefined
useNewAPI(P) == P.bb # Undefined

lineMetadata(P) ==
    LET lines == OrElse(Get(P.bb, "line_metadata"),
                   OrElse(Get(P.bb, "lines"), Get(P.bb, "lineMetadata")))
    IN  IF ~Truthy(P.bb) \/ ~TypeofObject(P.bb) THEN <<>>
        ELSE IF lines.t = "array" THEN lines.a ELSE <<>>

\* lineMetadata.find(line => (line.line_no || line.line_number || line.line)
\*                           === lineNumber)
RECURSIVE FindLine(_, _, _)
FindLine(lines, k, lineNumber) ==
    IF k > Len(lines) THEN Undefined
    ELSE LET lineNo == OrElse(Get(lines[k], "line_no"),
                         OrElse(Get(lines[k], "line_number"), Get(lines[k], "line")))
         IN  IF lineNo = JNum(lineNumber) THEN lines[k]
             ELSE FindLine(lines, k + 1, lineNumber)

\* The box pushed for one line number, as a sequence of zero or one box.
LineBox(P, lineNumber) ==
    LET lineData == FindLine(lineMetadata(P), 1, lineNumber)
        bbox == OrElse(Get(lineData, "bbox"), OrElse(Get(lineData, "bounding_box"),
                  OrElse(Get(lineData, "box"), Get(lineData, "raw_box"))))
        fromArray ==
            [x |-> 0,
             y |-> OrElse(ArrAt(bbox, 1), JNum(0)).v,
             width |-> 500,
             height |-> OrElse(ArrAt(bbox, 2), JNum(0)).v,
             page |-> OrElse(ArrAt(bbox, 0), JNum(1)).v]
        fromObject ==
            [x |-> OrElse(Get(bbox, "x"), OrElse(Get(bbox, "left"), JNum(0))).v,
             y |-> OrElse(Get(bbox, "y"), OrElse(Get(bbox, "top"),
                     OrElse(Get(bbox, "base_y"), JNum(0)))).v,
             width |-> OrElse(Get(bbox, "width"),
                         OrElse(Minus(Get(bbox, "right"), Get(bbox, "left")),
                                JNum(500))).v,
             height |-> OrElse(Get(bbox, "height"),
                          OrElse(Minus(Get(bbox, "bottom"), Get(bbox, "top")),
                                 JNum(0))).v,
             page |-> OrElse(Get(bbox, "page"),
                        OrElse(Get(bbox, "pageNumber"), JNum(1))).v]
        box == IF bbox.t = "array" /\ Len(bbox.a) >= 4 THEN fromArray ELSE fromObject
    IN  IF ~(Truthy(lineData) /\ TypeofObject(lineData)) THEN <<>>
        ELSE IF ~Truthy(bbox) THEN <<>>
        ELSE IF ~TypeofObject(bbox) THEN <<>>
        ELSE IF box.width > 0 /\ box.height > 0 THEN <<box>> ELSE <<>>

RECURSIVE LineBoxes(_, _, _)
LineBoxes(P, nums, k) ==
    IF k > Len(nums) THEN <<>>
    ELSE LineBox(P, nums[k]) \o LineBoxes(P, nums, k + 1)

lineNumbersToBoxes(P) ==
    IF ~useNewAPI(P) \/ lineMetadata(P) = <<>> \/ P.activeLineNumbers = <<>>
    THEN <<>>
    ELSE LineBoxes(P, Unique(P.activeLineNumbers), 1)

\* A resolution that pushes an empty box at the origin of page 1 for an
\* index the lookup does not have.
RECURSIVE LookupBoxesDefaulting(_, _, _)
LookupBoxesDefaulting(map, idxs, k) ==
    IF k > Len(idxs) THEN <<>>
    ELSE (IF idxs[k] \in DOMAIN map THEN <<map[idxs[k]]>>
          ELSE <<[x |-> 0, y |-> 0, width |-> 0, height |-> 0, page |-> 1]>>)
         \o LookupBoxesDefaulting(map, idxs, k + 1)

\* The boxes of the selected indexes found in the lookup (both
\* wordIndexesToBoxes and the loop inside previewHighlights).
RECURSIVE LookupBoxes(_, _, _)
LookupBoxes(map, idxs, k) ==
    IF k > Len(idxs) THEN <<>>
    ELSE (IF idxs[k] \in DOMAIN map THEN <<map[idxs[k]]>> ELSE <<>>)
         \o LookupBoxes(map, idxs, k + 1)

wordIndexesToBoxes(P) ==
    IF ~useNewAPI(P) \/ ~Truthy(P.bb) \/ P.selectedIndexes = <<>> THEN <<>>
    ELSE LookupBoxes(buildIndexLookup(P.bb).map, Unique(P.selectedIndexes), 1)

mergedHighlights(P) ==
    IF ~useNewAPI(P) THEN <<>>
    ELSE
    mergeBoxes(IF Len(lineNumbersToBoxes(P)) > 0
               THEN lineNumbersToBoxes(P) ELSE wordIndexesToBoxes(P))

\* pageOffsets: [0, h1 + 16, h1 + 16 + h2 + 16, ...]; empty without metadata.
RECURSIVE OffsetsUpTo(_, _)
OffsetsUpTo(meta, n) ==
    IF n = 0 THEN <<0>>
    ELSE LET prev == OffsetsUpTo(meta, n - 1)
         IN  Append(prev, prev[n] + meta[n].height + PageMargin)

pageOffsets(meta) == IF meta = <<>> THEN <<>> ELSE OffsetsUpTo(meta, Len(meta))

\* pageOffsets[pageIndex] || 0
OffsetAt(meta, pageIndex) ==
    LET offs == pageOffsets(meta)
    IN  IF pageIndex >= 0 /\ pageIndex + 1 <= Len(offs) THEN offs[pageIndex + 1] ELSE 0

\* getPageOffsets with the margin left out.
RECURSIVE OffsetsLoopNoMargin(_, _, _, _)
OffsetsLoopNoMargin(meta, i, currentOffset, offsets) ==
    IF i > Len(meta) THEN offsets
    ELSE OffsetsLoopNoMargin(meta, i + 1, currentOffset + meta[i].height,
                             Append(offsets, currentOffset + meta[i].height))

getPageOffsetsNoMargin(meta) == OffsetsLoopNoMargin(meta, 1, 0, <<0>>)

\* The viewer's getPageOffsets: its for loop, then the table.
RECURSIVE OffsetsLoop(_, _, _, _)
OffsetsLoop(meta, i, currentOffset, offsets) ==
    IF i > Len(meta) THEN offsets
    ELSE OffsetsLoop(meta, i + 1,
                     currentOffset + meta[i].height + ViewerPageMargin,
                     Append(offsets,
                            currentOffset + meta[i].height + ViewerPageMargin))

getPageOffsets(meta) == OffsetsLoop(meta, 1, 0, <<0>>)

\* offsets[pageIndex] || 0 in the viewer.
ViewerOffsetAt(meta, pageIndex) ==
    LET offs == getPageOffsets(meta)
    IN  IF pageIndex >= 0 /\ pageIndex + 1 <= Len(offs) THEN offs[pageIndex + 1] ELSE 0

\* A box in source pixels as a rectangle in hundredths, nothing else changed.
Untransformed(h) ==
    [h EXCEPT !.x = 100 * h.x, !.y = 100 * h.y,
              !.width = 100 * h.width, !.height = 100 * h.height]

\* The callback of mergedHighlights.map in positionedHighlights and of
\* merged.map in previewHighlights (the same code twice).
PositionHighlight(P, h) ==
    LET pageIndex == h.page - 1
    IN  IF ~(pageIndex >= 0 /\ pageIndex < Len(P.meta)) THEN Untransformed(h)
        ELSE LET pageOffset == OffsetAt(P.meta, pageIndex)
                 pageHeight == P.meta[pageIndex + 1].height
                 flippedY == pageHeight - 100 * h.y - 100 * h.height
             IN  [h EXCEPT !.x = h.x * P.zoom,
                           !.y = (flippedY * P.zoom) \div 100 + pageOffset,
                           !.width = h.width * P.zoom,
                           !.height = h.height * P.zoom]

RECURSIVE PositionAll(_, _, _)
PositionAll(P, hs, k) ==
    IF k > Len(hs) THEN <<>>
    ELSE <<PositionHighlight(P, hs[k])>> \o PositionAll(P, hs, k + 1)

\* Without boundingBoxes the legacy "highlights" prop is positioned; the
\* viewer passes an empty list there (nothing ever sets hoveredBoundingBox).
positionedHighlights(P) ==
    IF ~useNewAPI(P) THEN <<>> ELSE PositionAll(P, mergedHighlights(P), 1)

effectiveActiveHighlightId(P) ==
    IF P.clickedHighlightId # NoId THEN P.clickedHighlightId
    ELSE IF useNewAPI(P) /\ P.activeHighlightId # NoId
                         /\ Len(P.selectedIndexes) > 0
    THEN P.activeHighlightId
    ELSE NoId

\* previewHighlights with its second line left out.
previewHighlightsAlways(P) ==
    IF ~useNewAPI(P) \/ ~Truthy(P.bb) \/ P.selectedIndexes = <<>> THEN <<>>
    ELSE PositionAll(P,
            mergeBoxes(LookupBoxes(buildIndexLookup(P.bb).map,
                                   Unique(P.selectedIndexes), 1)), 1)

previewHighlights(P) ==
    IF ~useNewAPI(P) \/ ~Truthy(P.bb) \/ P.selectedIndexes = <<>> THEN <<>>
    ELSE IF effectiveActiveHighlightId(P) # NoId THEN <<>>
    ELSE PositionAll(P,
            mergeBoxes(LookupBoxes(buildIndexLookup(P.bb).map,
                                   Unique(P.selectedIndexes), 1)), 1)

\* The id string "line-<activeLineNumbers[idx]>-<idx>".
LineHighlightId(line, idx) == [kind |-> "line", line |-> line, n |-> idx]

\* The line branch of activeHighlights: map, then filter out the nulls.
RECURSIVE PositionLines(_, _, _)
PositionLines(P, bs, k) ==
    IF k > Len(bs) THEN <<>>
    ELSE LET box == bs[k]
             idx == k - 1
             pageIndex == box.page - 1
             pageOffset == OffsetAt(P.meta, pageIndex)
             pageHeight == P.meta[pageIndex + 1].height
             flippedY == pageHeight - 100 * box.y - 100 * box.height
             rect == [id |-> LineHighlightId(P.activeLineNumbers[idx + 1], idx),
                      x |-> box.x * P.zoom,
                      y |-> (flippedY * P.zoom) \div 100 + pageOffset,
                      width |-> box.width * P.zoom,
                      height |-> box.height * P.zoom,
                      page |-> box.page]
         IN  (IF pageIndex >= 0 /\ pageIndex < Len(P.meta) THEN <<rect>> ELSE <<>>)
             \o PositionLines(P, bs, k + 1)

activeHighlights(P) ==
    IF Len(P.activeLineNumbers) > 0 /\ Len(lineNumbersToBoxes(P)) > 0
    THEN PositionLines(P, lineNumbersToBoxes(P), 1)
    ELSE IF effectiveActiveHighlightId(P) = NoId THEN <<>>
    ELSE positionedHighlights(P)


NormIdle ==
    /\ payload = JObj(<<>>)
    /\ lookup = [threw |-> FALSE, map |-> <<>>]
    /\ npc = "idle"

MergeIdle ==
    /\ boxes = <<>>
    /\ merged = <<>>
    /\ remerged = <<>>
    /\ mpc = "idle"

NoProps ==
    [bb |-> Undefined, selectedIndexes |-> <<>>, activeLineNumbers |-> <<>>,
     zoom |-> 100, meta |-> <<>>, activeHighlightId |-> NoId,
     clickedHighlightId |-> NoId]

\* The memos of a render that has not happened.
NoMemos ==
    [wordBoxes |-> <<>>, lineBoxes |-> <<>>, merged |-> <<>>, preview |-> <<>>]

LineIdle ==
    /\ lineProps = NoProps
    /\ lineRects = <<>>
    /\ lineScroll = <<>>
    /\ memos = NoMemos
    /\ lpc = "idle"

\* The provider's selectedFileId while it is null.
NoFile == "null"

FileIdle ==
    /\ selectedFileId = NoFile
    /\ providerFileId = NoFile
    /\ isSwitchingFile = FALSE
    /\ hoveredBoundingBox = JNull
    /\ activeBoundingBox = JNull
    /\ effectDue = FALSE
    /\ loadState = "idle"
    /\ error = FALSE
    /\ numPages = 0
    /\ mapFile = NoFile
    /\ pageLookup = <<>>

CtlIdle ==
    /\ selectedWordIndexes = <<>>
    /\ activeHighlightId = NoId
    /\ timers = <<>>
    /\ zoom = 100
    /\ pageMetadata = <<>>
    /\ pagesLoaded = FALSE
    /\ rendering = "off"
    /\ clickedHighlightId = NoId
    /\ pulseHighlightId = NoId
    /\ scrollRequest = <<>>

(***************************************************************************)
(* SpecNorm: buildIndexLookup applied to bounded payloads                  *)
(***************************************************************************)
MaxWords == 2

Corners(x1, y1, x2, y2) ==
    JObj([x1 |-> JNum(x1), y1 |-> JNum(y1), x2 |-> JNum(x2), y2 |-> JNum(y2)])
XYWH(x, y, w, h) ==
    JObj([x |-> JNum(x), y |-> JNum(y), width |-> JNum(w), height |-> JNum(h)])
LTRB(l, t, r, b) ==
    JObj([left |-> JNum(l), top |-> JNum(t), right |-> JNum(r), bottom |-> JNum(b)])
Positional(a, b, c, d) == JArr(<<JNum(a), JNum(b), JNum(c), JNum(d)>>)

\* Entries with a numeric index and a box in one of the accepted forms.
GoodWords ==
    { JObj([index |-> JNum(0), bbox |-> Corners(10, 20, 50, 40), page |-> JNum(1)]),
      JObj([index |-> JNum(1), bbox |-> Corners(52, 20, 90, 40), page |-> JNum(1)]),
      JObj([index |-> JNum(0), bbox |-> XYWH(52, 20, 38, 20), page |-> JNum(2)]),
      JObj([index |-> JNum(1), bounding_box |-> LTRB(10, 20, 50, 40), page |-> JNum(2)]),
      JObj([index |-> JNum(0), bbox |-> Positional(10, 20, 50, 40), page |-> JNum(1)]),
      JObj([index |-> JNum(1), bbox |-> Corners(10, 20, 50, 40)]) }

\* Entries without a resolvable index or without a resolvable box.
BadWords ==
    { JNull, JStr,
      JObj([bbox |-> Corners(10, 20, 50, 40), page |-> JNum(1)]),
      JObj([index |-> JStr, bbox |-> Corners(10, 20, 50, 40), page |-> JNum(1)]),
      JObj([index |-> JNum(0), page |-> JNum(1)]),
      JObj([index |-> JNum(1), bbox |-> JStr, page |-> JNum(1)]) }

WordEntries == GoodWords \cup BadWords

WordLists(n) == UNION {[1..k -> WordEntries] : k \in 0..n}

\* The entries used inside a page's own words.
PageWordEntries ==
    { JObj([index |-> JNum(0), bbox |-> Corners(10, 20, 50, 40), page |-> JNum(1)]),
      JObj([index |-> JNum(0), bbox |-> XYWH(52, 20, 38, 20), page |-> JNum(2)]),
      JObj([index |-> JNum(1), bounding_box |-> LTRB(10, 20, 50, 40), page |-> JNum(2)]),
      JNull,
      JObj([index |-> JNum(0), page |-> JNum(1)]),
      JObj([index |-> JStr, bbox |-> Corners(10, 20, 50, 40), page |-> JNum(1)]) }

PageEntries ==
    {JNull, JStr}
    \cup {JObj([page |-> JNum(p), words |-> JArr(ws)]) :
            p \in Pages, ws \in UNION {[1..k -> PageWordEntries] : k \in 0..1}}

Payloads ==
    {JObj([words |-> JArr(ws), pages |-> JArr(ps)]) :
        ws \in WordLists(MaxWords),
        ps \in UNION {[1..k -> PageEntries] : k \in 0..2}}

InitNorm ==
    /\ payload \in Payloads
    /\ lookup = [threw |-> FALSE, map |-> <<>>]
    /\ npc = "input"
    /\ MergeIdle
    /\ LineIdle
    /\ CtlIdle
    /\ FileIdle

Normalize ==
    /\ npc = "input"
    /\ lookup' = buildIndexLookup(payload)
    /\ npc' = "done"
    /\ UNCHANGED payload
    /\ UNCHANGED <<mergeVars, lineVars, ctlVars, fileVars>>

NextNorm == Normalize

SpecNorm == InitNorm /\ [][NextNorm]_vars


(***************************************************************************)
(* SpecMerge: mergeBoxes applied to bounded inputs                         *)
(***************************************************************************)
MaxBoxes == 3
MaxPairX == 2
MaxPairY == 2
MaxPairW == 2
MaxPairH == 3


\* Any two boxes on a fine grid.
PairBoxes ==
    [x : 0..MaxPairX, y : 0..MaxPairY, width : 1..MaxPairW,
     height : 1..MaxPairH, page : Pages]

\* Lists of up to MaxBoxes word-sized boxes on a coarse grid.
ListBoxes ==
    [x : {0, 2, 3}, y : {0, 1, 2}, width : {1}, height : {2}, page : Pages]

MergeInputs ==
    [1..2 -> PairBoxes] \cup UNION {[1..n -> ListBoxes] : n \in 0..MaxBoxes}

InitMerge ==
    /\ boxes \in MergeInputs
    /\ merged = <<>>
    /\ remerged = <<>>
    /\ mpc = "input"
    /\ NormIdle
    /\ LineIdle
    /\ CtlIdle
    /\ FileIdle

Merge ==
    /\ mpc = "input"
    /\ merged' = mergeBoxes(boxes)
    /\ mpc' = "merged"
    /\ UNCHANGED <<boxes, remerged>>
    /\ UNCHANGED <<normVars, lineVars, ctlVars, fileVars>>

MergeAgain ==
    /\ mpc = "merged"
    /\ remerged' = mergeBoxes(merged)
    /\ mpc' = "remerged"
    /\ UNCHANGED <<boxes, merged>>
    /\ UNCHANGED <<normVars, lineVars, ctlVars, fileVars>>

NextMerge == Merge \/ MergeAgain

SpecMerge == InitMerge /\ [][NextMerge]_vars

(***************************************************************************)
(* Claims about the box merge engine                                       *)
(***************************************************************************)
SamePage(a, b) == a.page = b.page

\* Horizontal extents overlap, or the gap between them is at most
\* 0.5 x the smaller height (doubled).
HorizontallyClose(a, b) ==
    2 * Max(b.x - (a.x + a.width), a.x - (b.x + b.width))
        <= Min(a.height, b.height)

\* Vertical centers y + height/2 differ by at most 0.6 x the larger height
\* (both sides multiplied by 10).
CentersClose(a, b) ==
    5 * Abs((2 * a.y + a.height) - (2 * b.y + b.height))
        <= 6 * Max(a.height, b.height)

\* Top edges differ by at most 0.6 x the larger height.
TopsClose(a, b) == 10 * Abs(a.y - b.y) <= 6 * Max(a.height, b.height)

SameBounds(h, u) ==
    h.x = u.x /\ h.y = u.y /\ h.width = u.width /\ h.height = u.height

IsUnionOfBoth(ms, a, b) ==
    /\ Len(ms) = 1
    /\ SameBounds(ms[1], UnionBox(a, b))
    /\ ms[1].page = a.page

C5_MergeIdempotent == mpc = "remerged" => remerged = merged

\* C6: the output of merge is a fixed point: no two of its rectangles on
\* the same page are still mergeable.
C6_MergeFixedPoint ==
    mpc = "merged" =>
        \A i, j \in 1..Len(merged) :
            (i < j /\ SamePage(merged[i], merged[j]))
                => ~boxesOverlap(merged[i], merged[j])

(***************************************************************************)
(* Claims about the payload normalizer                                     *)
(***************************************************************************)
\* The box of an entry is resolvable: an object carrying one of the
\* accepted coordinate families, or a 4-element positional array.
HasBox(w) ==
    LET b == OrElse(Get(w, "bbox"), Get(w, "bounding_box"))
    IN  \/ /\ b.t = "object"
           /\ \/ {"x1", "y1", "x2", "y2"} \subseteq DOMAIN b.f
              \/ {"x", "y", "width", "height"} \subseteq DOMAIN b.f
              \/ {"left", "top", "right", "bottom"} \subseteq DOMAIN b.f
        \/ b.t = "array" /\ Len(b.a) = 4

HasIndex(w) == Get(w, "index").t = "number"

WellFormed(w) == w.t = "object" /\ HasIndex(w) /\ HasBox(w)

SeqRange(s) == {s[k] : k \in 1..Len(s)}

ArrayItems(v) == IF v.t = "array" THEN SeqRange(v.a) ELSE {}

\* Every word entry of a payload: flat words and each page's words.
AllWordEntries(bb) ==
    ArrayItems(Get(bb, "words"))
    \cup UNION {ArrayItems(Get(pg, "words")) : pg \in ArrayItems(Get(bb, "pages"))}

\* C8: normalize drops every entry without a resolvable index or box, and
\* a malformed entry never aborts it: every well-formed entry of the
\* payload still yields a record for its index.
C8_NormalizeLenient ==
    npc = "done" =>
        /\ ~lookup.threw
        /\ \A w \in AllWordEntries(payload) :
               WellFormed(w) => Get(w, "index").v \in DOMAIN lookup.map
        /\ \A i \in DOMAIN lookup.map :
               \E w \in AllWordEntries(payload) :
                   WellFormed(w) /\ Get(w, "index").v = i

(***************************************************************************)
(* SpecLine: a HighlightOverlay given one line number whose line_metadata  *)
(* entry carries the tuple [page, base_y, height, page_height]             *)
(***************************************************************************)
\* The pages of the document in pixels at scale 1 (getViewport({scale: 1})).
LinePageSizes == <<[width |-> 612, height |-> 792], [width |-> 612, height |-> 792]>>

\* pageMetadata as the render effect builds it at zoom z (percent): sizes
\* from getViewport({scale: z / 100}), here in hundredths of a pixel.
MetaOf(sizes, z) ==
    [i \in 1..Len(sizes) |->
        [pageNumber |-> i, width |-> sizes[i].width * z,
         height |-> sizes[i].height * z, scale |-> z]]

\* The page-height reference of a tuple: the height of the page, half of
\* it, zero, a negative number, or null where the backend had none.
LineHeightRefs == {JNum(792), JNum(396), JNum(0), JNum(-792), JNull}

LineTuples ==
    {<<pg, by, lh, H>> : pg \in {1, 2, 3}, by \in {0, 100, 700},
                         lh \in {0, 10, 20}, H \in LineHeightRefs}

LineZooms == {50, 100, 150}

LinePayload(tuple) ==
    JObj([line_metadata |->
            JArr(<<JObj([line_no |-> JNum(1),
                         bbox |-> JArr(<<JNum(tuple[1]), JNum(tuple[2]),
                                         JNum(tuple[3]), tuple[4]>>)])>>)])

\* getLineEntry of the line-based viewer: the first entry whose line number
\* (line_number ?? line_no ?? line, a number here) is the one asked for.
RECURSIVE LineEntryFrom(_, _, _)
LineEntryFrom(lines, k, lineNumber) ==
    IF k > Len(lines) THEN JNull
    ELSE LET entry == lines[k]
             ln == Coalesce(Get(entry, "line_number"),
                     Coalesce(Get(entry, "line_no"), Get(entry, "line")))
         IN  IF Truthy(entry) /\ TypeofObject(entry) /\ ln = JNum(lineNumber)
             THEN entry
             ELSE LineEntryFrom(lines, k + 1, lineNumber)

getLineEntry(bb, lineNumber) ==
    IF ~Truthy(bb) \/ ~TypeofObject(bb) THEN JNull
    ELSE LET lines == OrElse(Get(bb, "line_metadata"),
                        OrElse(Get(bb, "lines"), JArr(<<>>)))
         IN  IF lines.t # "array" THEN JNull
             ELSE LineEntryFrom(lines.a, 1, lineNumber)

\* scrollToPage of the line-based viewer, on the overlay's zoom and
\* metadata; the result is the top it scrolls to, in hundredths, if any.
scrollToPageLine(P, pageNumber, lineIndex) ==
    IF P.meta = <<>> \/ pageNumber < 1 \/ pageNumber > Len(P.meta) THEN <<>>
    ELSE LET pageMeta == P.meta[pageNumber]
             pageOffset == ViewerOffsetAt(P.meta, pageNumber - 1)
             entry == getLineEntry(P.bb, lineIndex)
             rawBox == OrElse(Get(entry, "raw_box"), OrElse(Get(entry, "raw"),
                         OrElse(Get(entry, "bbox"), Get(entry, "box"))))
             pageHeightSource ==
                 OrElse(Get(entry, "page_height"),
                   OrElse(Get(entry, "pageHeight"), ArrAt(rawBox, 3)))
             lineCase ==
                 /\ Truthy(P.bb) /\ Truthy(entry)
                 /\ rawBox.t = "array" /\ Len(rawBox.a) >= 4
                 /\ Coalesce(Get(entry, "page"),
                       Coalesce(ArrAt(rawBox, 0), JNum(1))) = JNum(pageNumber)
             \* in whole pixels, which the page heights of the model are
             pageHeight == IF Truthy(pageHeightSource)
                           THEN pageHeightSource.v ELSE pageMeta.height \div 100
             yFlipped == pageHeight - (rawBox.a[2].v + rawBox.a[3].v)
             \* yFlipped * (pageMeta.height / pageHeight), in hundredths
             scaled == IF pageHeight > 0
                       THEN (yFlipped * pageMeta.height) \div pageHeight
                       ELSE ((0 - yFlipped) * pageMeta.height) \div (0 - pageHeight)
             scrollY ==
                 IF lineCase /\ pageHeight # 0
                 THEN pageOffset + scaled - WordScrollMargin
                 ELSE pageOffset - PageScrollMargin
         IN  <<Max(0, scrollY)>>

\* scrollToHighlight of the line-based viewer.
scrollToHighlightLine(P, lineIndexes) ==
    IF lineIndexes = <<>> \/ ~Truthy(P.bb) \/ P.meta = <<>> THEN <<>>
    ELSE LET entry == getLineEntry(P.bb, lineIndexes[1])
         IN  IF ~Truthy(entry) THEN <<>>
             ELSE scrollToPageLine(P, Coalesce(Get(entry, "page"), JNum(1)).v,
                                   lineIndexes[1])

InitLine ==
    /\ \E tuple \in LineTuples, z \in LineZooms :
          lineProps = [bb |-> LinePayload(tuple), selectedIndexes |-> <<>>,
                       activeLineNumbers |-> <<1>>, zoom |-> z,
                       meta |-> MetaOf(LinePageSizes, z),
                       activeHighlightId |-> NoId, clickedHighlightId |-> NoId]
    /\ lineRects = <<>>
    /\ lineScroll = <<>>
    /\ memos = NoMemos
    /\ lpc = "input"
    /\ MergeIdle
    /\ NormIdle
    /\ CtlIdle
    /\ FileIdle

RenderLines ==
    /\ lpc = "input"
    /\ lineRects' = activeHighlights(lineProps)
    /\ lpc' = "done"
    /\ UNCHANGED <<lineProps, lineScroll, memos>>
    /\ UNCHANGED <<mergeVars, normVars, ctlVars, fileVars>>

\* The line's panel entry is clicked and the viewer scrolls to the line.
ScrollLines ==
    /\ lpc = "done"
    /\ lineScroll' = scrollToHighlightLine(lineProps, lineProps.activeLineNumbers)
    /\ lpc' = "scrolled"
    /\ UNCHANGED <<lineProps, lineRects, memos>>
    /\ UNCHANGED <<mergeVars, normVars, ctlVars, fileVars>>

NextLine == RenderLines \/ ScrollLines

SpecLine == InitLine /\ [][NextLine]_vars

\* The tuple of the selected line and the viewport of its page.
LineTuple == lineProps.bb.f.line_metadata.a[1].f.bbox.a
LineViewportExists == LineTuple[1].v <= Len(lineProps.meta)

\* C3: a line-tuple box [page, baseY, lineHeight, H] with H > 0 on a page
\* that has a viewport is emitted, at every zoom, as the rectangle
\*   x = 0, width = viewport.width,
\*   height = lineHeight * (viewport.height / H),
\*   y = (H - (baseY + lineHeight)) * (viewport.height / H) + offsets[page-1]
\* (the two quotients stated by cross-multiplication with H).
C3_LineTupleTransform ==
    (lpc = "done" /\ LineViewportExists /\ LineTuple[4].t = "number"
     /\ LineTuple[4].v > 0 /\ LineTuple[3].v > 0)
    => LET page == LineTuple[1].v
           baseY == LineTuple[2].v
           lineHeight == LineTuple[3].v
           H == LineTuple[4].v
           viewport == lineProps.meta[page]
           offset == OffsetAt(lineProps.meta, page - 1)
       IN  /\ Len(lineRects) = 1
           /\ lineRects[1].x = 0
           /\ lineRects[1].width = viewport.width
           /\ lineRects[1].height * H = lineHeight * viewport.height
           /\ (lineRects[1].y - offset) * H = (H - (baseY + lineHeight)) * viewport.height

(***************************************************************************)
(* SpecOverlay: one render of HighlightOverlay given word indexes and line *)
(* numbers together, on a document that has both kinds of records.         *)
(***************************************************************************)
\* The longest selection and the longest list of line numbers handed over.
MaxSelection == 3
MaxLineNumbers == 2

\* Words 0 and 1 side by side on page 1 and word 2 on page 2; line 1 on
\* page 1 as an object box and line 2 on page 2 as a tuple.
OverlayWords ==
    JArr(<<
        JObj([index |-> JNum(0), page |-> JNum(1), bbox |-> Corners(10, 20, 50, 40)]),
        JObj([index |-> JNum(1), page |-> JNum(1), bbox |-> Corners(52, 20, 90, 40)]),
        JObj([index |-> JNum(2), page |-> JNum(2), bbox |-> XYWH(10, 100, 50, 20)])>>)

OverlayLines ==
    JArr(<<
        JObj([line_no |-> JNum(1),
              bbox |-> JObj([page |-> JNum(1), x |-> JNum(5), y |-> JNum(18),
                             width |-> JNum(400), height |-> JNum(24)])]),
        JObj([line_no |-> JNum(2),
              bbox |-> JArr(<<JNum(2), JNum(100), JNum(20), JNum(792)>>)])>>)

\* A document with word and line records, and one with word records only.
OverlayDocuments ==
    { JObj([words |-> OverlayWords, line_metadata |-> OverlayLines]),
      JObj([words |-> OverlayWords]) }

\* Selections over the word indexes 0..2 and the absent index 9, and line
\* number lists over the lines 1, 2 and the absent line 7; both may repeat
\* a key.
Selections == UNION {[1..n -> {0, 1, 2, 9}] : n \in 0..MaxSelection}
LineSelections == UNION {[1..n -> {1, 2, 7}] : n \in 0..MaxLineNumbers}

InitOverlay ==
    /\ \E bb \in OverlayDocuments, sel \in Selections, lines \in LineSelections,
          aid \in {NoId, HighlightId} :
          lineProps = [bb |-> bb, selectedIndexes |-> sel,
                       activeLineNumbers |-> lines, zoom |-> 100,
                       meta |-> MetaOf(LinePageSizes, 100),
                       activeHighlightId |-> aid, clickedHighlightId |-> NoId]
    /\ lineRects = <<>>
    /\ lineScroll = <<>>
    /\ memos = NoMemos
    /\ lpc = "input"
    /\ MergeIdle
    /\ NormIdle
    /\ CtlIdle
    /\ FileIdle

\* One render: every memo of the component is computed from the props.
RenderOverlay ==
    /\ lpc = "input"
    /\ memos' = [wordBoxes |-> wordIndexesToBoxes(lineProps),
                 lineBoxes |-> lineNumbersToBoxes(lineProps),
                 merged |-> mergedHighlights(lineProps),
                 preview |-> previewHighlights(lineProps)]
    /\ lineRects' = activeHighlights(lineProps)
    /\ lpc' = "rendered"
    /\ UNCHANGED <<lineProps, lineScroll>>
    /\ UNCHANGED <<mergeVars, normVars, ctlVars, fileVars>>

NextOverlay == RenderOverlay

SpecOverlay == InitOverlay /\ [][NextOverlay]_vars

(***************************************************************************)
(* Spec: the highlight selection controller.  Workspace holds the selected *)
(* word indexes and the active highlight id, PDFViewerWrapper the zoom and *)
(* the page metadata, HighlightOverlay the clicked and pulsing highlight.  *)
(* One document is displayed.  Lengths are in hundredths of a pixel, time  *)
(* in units of 1000 ms.                                                    *)
(***************************************************************************)
\* At most this many click callbacks (decay or pulse) are pending at once.
MaxPendingClicks == 2
\* The zoom buttons are used within this many steps of the default zoom.
MaxZoomSteps == 1

\* setTimeout delays.
DecayDelay == 2
PulseDelay == 1
GlowDelay == 2

\* Zoom handlers.
ZoomStep == 25
ZoomMax == 200
ZoomMin == 50
ZoomDefault == 100

\* The pages of the displayed document in pixels at scale 1.
PageSizes == <<[width |-> 600, height |-> 800], [width |-> 600, height |-> 800]>>

\* selectedDocument.boundingBoxes: words 0 and 1 side by side on page 1,
\* word 2 on page 2, word 3 on a page the document does not have.
Document ==
    JObj([words |-> JArr(<<
        JObj([index |-> JNum(0), page |-> JNum(1), bbox |-> Corners(10, 20, 50, 40)]),
        JObj([index |-> JNum(1), page |-> JNum(1), bbox |-> Corners(52, 20, 90, 40)]),
        JObj([index |-> JNum(2), page |-> JNum(2), bbox |-> XYWH(10, 100, 50, 20)]),
        JObj([index |-> JNum(3), page |-> JNum(3), bbox |-> Corners(10, 20, 50, 40)])>>)])

\* The word index lists the panels hand to the hover and click callbacks;
\* index 9 is not in the document.
KeyLists == {<<0, 1>>, <<2>>, <<3, 0>>, <<9>>}

\* loadPDF: the word index -> page map kept in wordIndexToPageMapRef.
RECURSIVE PageMapWords(_, _, _)
PageMapWords(ws, k, map) ==
    IF k > Len(ws) THEN map
    ELSE LET word == ws[k]
             ok == /\ Truthy(word) /\ word.t = "object"
                   /\ "index" \in DOMAIN word.f /\ "page" \in DOMAIN word.f
                   /\ word.f.index.t = "number" /\ word.f.page.t = "number"
         IN  PageMapWords(ws, k + 1,
                IF ok THEN (word.f.index.v :> word.f.page.v) @@ map ELSE map)

RECURSIVE PageMapNested(_, _, _, _)
PageMapNested(ws, k, pageNum, map) ==
    IF k > Len(ws) THEN map
    ELSE LET word == ws[k]
             ok == /\ Truthy(word) /\ word.t = "object"
                   /\ "index" \in DOMAIN word.f /\ pageNum.t = "number"
                   /\ word.f.index.t = "number"
         IN  PageMapNested(ws, k + 1, pageNum,
                IF ok THEN (word.f.index.v :> pageNum.v) @@ map ELSE map)

RECURSIVE PageMapPages(_, _, _)
PageMapPages(ps, k, map) ==
    IF k > Len(ps) THEN map
    ELSE LET page == ps[k]
             pageNum == IF "page" \in DOMAIN page.f THEN page.f.page
                        ELSE IF "index" \in DOMAIN page.f THEN page.f.index
                        ELSE JNull
             pageWords == IF "words" \in DOMAIN page.f /\ page.f.words.t = "array"
                          THEN page.f.words.a ELSE <<>>
         IN  PageMapPages(ps, k + 1,
                IF Truthy(page) /\ page.t = "object"
                THEN PageMapNested(pageWords, 1, pageNum, map) ELSE map)

wordIndexToPageMap(bb) ==
    PageMapPages(OrElse(Get(bb, "pages"), JArr(<<>>)).a, 1,
        PageMapWords(OrElse(Get(bb, "words"), JArr(<<>>)).a, 1, <<>>))

\* wordIndexToPageMapRef.current once loadPDF has read the document.
wordIndexToPageMapRef == wordIndexToPageMap(Document)

\* getPageForWordIndex: "page || null", 0 standing for null.
getPageForWordIndex(wordIndex) ==
    LET map == wordIndexToPageMapRef
    IN  IF wordIndex \in DOMAIN map THEN map[wordIndex] ELSE 0

\* The viewer's own copy of buildIndexLookup: as the overlay's, but a page
\* that is no object is skipped.
RECURSIVE ViewerPages(_, _, _)
ViewerPages(ps, k, map) ==
    IF k > Len(ps) THEN map
    ELSE IF ~Truthy(ps[k]) \/ ~TypeofObject(ps[k]) THEN ViewerPages(ps, k + 1, map)
    ELSE ViewerPages(ps, k + 1,
            NestedWords(OrElse(Get(ps[k], "words"), JArr(<<>>)).a, 1,
                        PageNum(ps[k]), map))

viewerBuildIndexLookup(bb) ==
    ViewerPages(OrElse(Get(bb, "pages"), JArr(<<>>)).a, 1,
        FlatWords(OrElse(Get(bb, "words"), JArr(<<>>)).a, 1, <<>>))

\* buildIndexLookup(boundingBoxes) as scrollToPage calls it on the document.
DocumentLookup == viewerBuildIndexLookup(Document)

\* totalPages: pdf.numPages once the document is loaded.
totalPages == IF rendering = "loading" THEN 0 ELSE Len(PageSizes)

\* scrollToPage(pageNumber, wordIndex): the scrollTo requests it makes.
scrollToPage(pageNumber, wordIndex) ==
    IF pageMetadata = <<>> \/ pageNumber < 1 \/ pageNumber > totalPages THEN <<>>
    ELSE IF pageNumber > Len(pageMetadata) THEN <<>>
    ELSE LET pageOffset == ViewerOffsetAt(pageMetadata, pageNumber - 1)
             map == DocumentLookup
             scrollY ==
                 IF wordIndex \in DOMAIN map /\ map[wordIndex].page = pageNumber
                 THEN pageOffset + map[wordIndex].y * zoom - WordScrollMargin
                 ELSE pageOffset - PageScrollMargin
         IN  <<Max(0, scrollY)>>

\* scrollToHighlight that looks at the last index instead of the first.
scrollToHighlightLastKey(wordIndexes) ==
    IF wordIndexes = <<>> \/ pageMetadata = <<>> THEN <<>>
    ELSE IF getPageForWordIndex(wordIndexes[Len(wordIndexes)]) = 0 THEN <<>>
    ELSE scrollToPage(getPageForWordIndex(wordIndexes[Len(wordIndexes)]),
                      wordIndexes[Len(wordIndexes)])

\* scrollToHighlight(wordIndexes)
scrollToHighlight(wordIndexes) ==
    IF wordIndexes = <<>> \/ pageMetadata = <<>> THEN <<>>
    ELSE IF getPageForWordIndex(wordIndexes[1]) = 0 THEN <<>>
    ELSE scrollToPage(getPageForWordIndex(wordIndexes[1]), wordIndexes[1])

\* The overlay is rendered only inside "pagesLoaded && pageMetadata.length > 0".
OverlayMounted == pagesLoaded /\ Len(pageMetadata) > 0

\* "boundingBoxes && selectedIndexes.length > 0": the props of the overlay,
\* those of the new API or those of the legacy one.
OverlayProps ==
    IF Truthy(Document) /\ Len(selectedWordIndexes) > 0
    THEN [bb |-> Document, selectedIndexes |-> selectedWordIndexes,
          activeLineNumbers |-> <<>>, zoom |-> zoom, meta |-> pageMetadata,
          activeHighlightId |-> activeHighlightId,
          clickedHighlightId |-> clickedHighlightId]
    ELSE [bb |-> Undefined, selectedIndexes |-> <<>>,
          activeLineNumbers |-> <<>>, zoom |-> 100, meta |-> <<>>,
          activeHighlightId |-> NoId,
          clickedHighlightId |-> clickedHighlightId]

\* The rectangles of the two layers the overlay draws.
PreviewRects == IF OverlayMounted THEN previewHighlights(OverlayProps) ELSE <<>>
ActiveRects == IF OverlayMounted THEN activeHighlights(OverlayProps) ELSE <<>>

Timer(kind, delay) == [kind |-> kind, left |-> delay]
TimersOf(kind) == SelectSeq(timers, LAMBDA t : t.kind = kind)
Without(ts, kinds) == SelectSeq(ts, LAMBDA t : t.kind \notin kinds)

\* The timer whose callback runs next: the oldest of those that are due.
IsNextDue(i) ==
    /\ i \in 1..Len(timers)
    /\ timers[i].left = 0
    /\ \A j \in 1..(i - 1) : timers[j].left # 0

RemoveAt(ts, i) == SubSeq(ts, 1, i - 1) \o SubSeq(ts, i + 1, Len(ts))

Init ==
    /\ selectedWordIndexes = <<>>
    /\ activeHighlightId = NoId
    /\ timers = <<>>
    /\ zoom = ZoomDefault
    /\ pageMetadata = <<>>
    /\ pagesLoaded = FALSE
    /\ rendering = "loading"
    /\ clickedHighlightId = NoId
    /\ pulseHighlightId = NoId
    /\ scrollRequest = <<>>
    /\ MergeIdle
    /\ NormIdle
    /\ LineIdle
    /\ FileIdle

\* loadPDF up to setPageMetadata; the change of totalPages starts the
\* render effect.
LoadPDF ==
    /\ rendering = "loading"
    /\ zoom' = ZoomDefault
    /\ pagesLoaded' = FALSE
    /\ pageMetadata' = MetaOf(PageSizes, 100)
    /\ rendering' = "effect"
    /\ scrollRequest' = <<>>
    /\ UNCHANGED <<selectedWordIndexes, activeHighlightId, timers,
                   clickedHighlightId, pulseHighlightId>>
    /\ UNCHANGED <<mergeVars, normVars, lineVars, fileVars>>

\* handleWordIndexHover that selects only the first of the hovered keys.
HoverFirstKeyOnly(wordIndexes) ==
    /\ selectedWordIndexes' =
          IF wordIndexes = <<>> THEN <<>> ELSE <<wordIndexes[1]>>
    /\ scrollRequest' = <<>>
    /\ UNCHANGED <<activeHighlightId, timers, zoom, pageMetadata, pagesLoaded,
                   rendering, clickedHighlightId, pulseHighlightId>>
    /\ UNCHANGED <<mergeVars, normVars, lineVars, fileVars>>

\* handleWordIndexHover that drops the event while a decay timer is pending.
HoverUnlessDecaying(wordIndexes) ==
    /\ selectedWordIndexes' =
          IF TimersOf("decay") # <<>> THEN selectedWordIndexes ELSE wordIndexes
    /\ scrollRequest' = <<>>
    /\ UNCHANGED <<activeHighlightId, timers, zoom, pageMetadata, pagesLoaded,
                   rendering, clickedHighlightId, pulseHighlightId>>
    /\ UNCHANGED <<mergeVars, normVars, lineVars, fileVars>>

\* handleWordIndexHover(wordIndexes); null and [] both select [].
Hover(wordIndexes) ==
    /\ selectedWordIndexes' = wordIndexes
    /\ scrollRequest' = <<>>
    /\ UNCHANGED <<activeHighlightId, timers, zoom, pageMetadata, pagesLoaded,
                   rendering, clickedHighlightId, pulseHighlightId>>
    /\ UNCHANGED <<mergeVars, normVars, lineVars, fileVars>>

\* handleWordIndexClick(wordIndexes)
Click(wordIndexes) ==
    /\ Len(TimersOf("decay")) + Len(TimersOf("pulse")) < MaxPendingClicks
    /\ selectedWordIndexes' = wordIndexes
    /\ activeHighlightId' = HighlightId
    /\ scrollRequest' = scrollToHighlight(wordIndexes)
    /\ timers' = Append(timers, Timer("decay", DecayDelay))
    /\ UNCHANGED <<zoom, pageMetadata, pagesLoaded, rendering,
                   clickedHighlightId, pulseHighlightId>>
    /\ UNCHANGED <<mergeVars, normVars, lineVars, fileVars>>

\* handleHighlightClick(highlight) for a rectangle of the active layer.
ScrollOfHighlight(P, highlight) ==
    IF useNewAPI(P) /\ P.meta # <<>>
    THEN <<Max(0, OffsetAt(P.meta, highlight.page - 1) + highlight.y
                  - WordScrollMargin)>>
    ELSE <<>>

HighlightClick(highlight) ==
    /\ Len(TimersOf("decay")) + Len(TimersOf("pulse")) < MaxPendingClicks
    /\ clickedHighlightId' = highlight.id
    /\ pulseHighlightId' = highlight.id
    /\ timers' = Without(timers, {"glow"})
                   \o <<Timer("pulse", PulseDelay), Timer("glow", GlowDelay)>>
    /\ scrollRequest' = ScrollOfHighlight(OverlayProps, highlight)
    /\ UNCHANGED <<selectedWordIndexes, activeHighlightId, zoom, pageMetadata,
                   pagesLoaded, rendering>>
    /\ UNCHANGED <<mergeVars, normVars, lineVars, fileVars>>

\* Time passes while no callback is due.
Tick ==
    /\ timers # <<>>
    /\ \A i \in 1..Len(timers) : timers[i].left > 0
    /\ timers' = [i \in 1..Len(timers) |-> [timers[i] EXCEPT !.left = @ - 1]]
    /\ scrollRequest' = <<>>
    /\ UNCHANGED <<selectedWordIndexes, activeHighlightId, zoom, pageMetadata,
                   pagesLoaded, rendering, clickedHighlightId, pulseHighlightId>>
    /\ UNCHANGED <<mergeVars, normVars, lineVars, fileVars>>

\* A decay callback that runs but leaves the highlight in place.
FireDecayKeeping ==
    /\ \E i \in 1..Len(timers) :
          /\ IsNextDue(i)
          /\ timers[i].kind = "decay"
          /\ timers' = RemoveAt(timers, i)
    /\ scrollRequest' = <<>>
    /\ UNCHANGED <<selectedWordIndexes, activeHighlightId, zoom, pageMetadata,
                   pagesLoaded, rendering, clickedHighlightId, pulseHighlightId>>
    /\ UNCHANGED <<mergeVars, normVars, lineVars, fileVars>>

\* () => setActiveHighlightId(null)
FireDecay ==
    /\ \E i \in 1..Len(timers) :
          /\ IsNextDue(i)
          /\ timers[i].kind = "decay"
          /\ timers' = RemoveAt(timers, i)
    /\ activeHighlightId' = NoId
    /\ scrollRequest' = <<>>
    /\ UNCHANGED <<selectedWordIndexes, zoom, pageMetadata, pagesLoaded,
                   rendering, clickedHighlightId, pulseHighlightId>>
    /\ UNCHANGED <<mergeVars, normVars, lineVars, fileVars>>

\* () => setPulseHighlightId(null)
FirePulse ==
    /\ \E i \in 1..Len(timers) :
          /\ IsNextDue(i)
          /\ timers[i].kind = "pulse"
          /\ timers' = RemoveAt(timers, i)
    /\ pulseHighlightId' = NoId
    /\ scrollRequest' = <<>>
    /\ UNCHANGED <<selectedWordIndexes, activeHighlightId, zoom, pageMetadata,
                   pagesLoaded, rendering, clickedHighlightId>>
    /\ UNCHANGED <<mergeVars, normVars, lineVars, fileVars>>

\* () => setClickedHighlightId(null)
FireGlow ==
    /\ \E i \in 1..Len(timers) :
          /\ IsNextDue(i)
          /\ timers[i].kind = "glow"
          /\ timers' = RemoveAt(timers, i)
    /\ clickedHighlightId' = NoId
    /\ scrollRequest' = <<>>
    /\ UNCHANGED <<selectedWordIndexes, activeHighlightId, zoom, pageMetadata,
                   pagesLoaded, rendering, pulseHighlightId>>
    /\ UNCHANGED <<mergeVars, normVars, lineVars, fileVars>>

\* setZoom(z): a changed zoom schedules the render effect again.
SetZoom(z) ==
    /\ zoom' = z
    /\ rendering' = IF z # zoom /\ rendering # "loading" THEN "effect" ELSE rendering
    /\ scrollRequest' = <<>>
    /\ UNCHANGED <<selectedWordIndexes, activeHighlightId, timers, pageMetadata,
                   pagesLoaded, clickedHighlightId, pulseHighlightId>>
    /\ UNCHANGED <<mergeVars, normVars, lineVars, fileVars>>

handleZoomIn ==
    /\ zoom < ZoomDefault + MaxZoomSteps * ZoomStep
    /\ SetZoom(Min(zoom + ZoomStep, ZoomMax))
handleZoomOut ==
    /\ zoom > ZoomDefault - MaxZoomSteps * ZoomStep
    /\ SetZoom(Max(zoom - ZoomStep, ZoomMin))
handleZoomReset == SetZoom(ZoomDefault)

\* The render effect starts: setPagesLoaded(false) takes the overlay away,
\* which clears its glow timeout and discards its state; the pulse callback
\* of an unmounted overlay has no effect.
RunEffect ==
    /\ rendering = "effect"
    /\ pagesLoaded' = FALSE
    /\ rendering' = "rendering"
    /\ clickedHighlightId' = NoId
    /\ pulseHighlightId' = NoId
    /\ timers' = Without(timers, {"glow", "pulse"})
    /\ scrollRequest' = <<>>
    /\ UNCHANGED <<selectedWordIndexes, activeHighlightId, zoom, pageMetadata>>
    /\ UNCHANGED <<mergeVars, normVars, lineVars, fileVars>>

\* renderPages has drawn every page at the current zoom.
RenderDone ==
    /\ rendering = "rendering"
    /\ pageMetadata' = MetaOf(PageSizes, zoom)
    /\ pagesLoaded' = TRUE
    /\ rendering' = "idle"
    /\ scrollRequest' = <<>>
    /\ UNCHANGED <<selectedWordIndexes, activeHighlightId, timers, zoom,
                   clickedHighlightId, pulseHighlightId>>
    /\ UNCHANGED <<mergeVars, normVars, lineVars, fileVars>>

HoverStep == \E wordIndexes \in KeyLists \cup {<<>>} : Hover(wordIndexes)
ClickStep == \E wordIndexes \in KeyLists : Click(wordIndexes)
HighlightClickStep ==
    \E k \in 1..Len(ActiveRects) : HighlightClick(ActiveRects[k])

Next ==
    \/ LoadPDF
    \/ HoverStep
    \/ ClickStep
    \/ HighlightClickStep
    \/ Tick
    \/ FireDecay
    \/ FirePulse
    \/ FireGlow
    \/ handleZoomIn
    \/ handleZoomOut
    \/ handleZoomReset
    \/ RunEffect
    \/ RenderDone

Spec == Init /\ [][Next]_vars

\* The browser's event loop keeps running: time passes while no callback is
\* due, and a due setTimeout callback is run.
TimerStep == Tick \/ FireDecay \/ FirePulse \/ FireGlow

SpecLive == Init /\ [][Next]_vars /\ WF_vars(TimerStep)

(***************************************************************************)
(* SpecFile: switching between the uploaded documents.  Workspace holds    *)
(* selectedFileId and the highlight selection, ExtractionProvider the id   *)
(* behind selectedFile, PDFViewerWrapper (mounted once, never keyed by the *)
(* document) the load of the displayed document's PDF and the word index   *)
(* to page map of the last document it read.  The documents are fixed; the *)
(* page is entered with the first document selected in Workspace and any   *)
(* document, or none, selected in the provider by an earlier visit.        *)
(***************************************************************************)
\* The second document: words 0 and 1 on page 2, word 5 on page 1.
OtherDocument ==
    JObj([words |-> JArr(<<
        JObj([index |-> JNum(0), page |-> JNum(2), bbox |-> Corners(10, 20, 50, 40)]),
        JObj([index |-> JNum(1), page |-> JNum(2), bbox |-> Corners(52, 20, 90, 40)]),
        JObj([index |-> JNum(5), page |-> JNum(1), bbox |-> XYWH(10, 100, 50, 20)])>>)])

\* documents: id, boundingBoxes and the key lists its panels hand over.
documents ==
    <<[id |-> "doc-1", boundingBoxes |-> Document, keys |-> {<<0, 1>>, <<2>>}],
      [id |-> "doc-2", boundingBoxes |-> OtherDocument, keys |-> {<<0>>, <<5, 1>>}]>>

FileIds == {documents[i].id : i \in 1..Len(documents)}

\* documents.find((doc) => doc.id === id)
FindDocument(id) ==
    documents[CHOOSE i \in 1..Len(documents) : documents[i].id = id]

\* selectedFile of the provider: the document of its id, else the first;
\* selectedDocument of Workspace is selectedFile whenever that is set.
selectedFile ==
    IF providerFileId \in FileIds THEN FindDocument(providerFileId) ELSE documents[1]
selectedDocument == selectedFile

\* The maps loadPDF builds and scrollToPage looks up, per document.
FilePageMaps == [id \in FileIds |-> wordIndexToPageMap(FindDocument(id).boundingBoxes)]
FileLookups == [id \in FileIds |-> viewerBuildIndexLookup(FindDocument(id).boundingBoxes)]

\* wordIndexToPageMapRef.current: an empty Map until a load has built one.
FilePageMap == IF mapFile \in FileIds THEN FilePageMaps[mapFile] ELSE <<>>

\* scrollToPage(pageNumber, wordIndex) on the props being displayed.
FileScrollToPage(shown, pageNumber, wordIndex, hasWordIndex) ==
    IF error \/ pageMetadata = <<>> \/ pageNumber < 1 \/ pageNumber > numPages THEN <<>>
    ELSE IF pageNumber > Len(pageMetadata) THEN <<>>
    ELSE LET pageOffset == ViewerOffsetAt(pageMetadata, pageNumber - 1)
             map == FileLookups[shown]
             scrollY ==
                 IF hasWordIndex /\ wordIndex \in DOMAIN map
                                 /\ map[wordIndex].page = pageNumber
                 THEN pageOffset + map[wordIndex].y * zoom - WordScrollMargin
                 ELSE pageOffset - PageScrollMargin
         IN  <<Max(0, scrollY)>>

\* scrollToHighlight(wordIndexes) reaches getPageForWordIndex unless one of
\* its guards returns first (the container is gone while the error view is
\* shown).
FileLookupReached(wordIndexes) ==
    wordIndexes # <<>> /\ Truthy(selectedDocument.boundingBoxes)
    /\ ~error /\ pageMetadata # <<>>

FileScrollToHighlight(shown, wordIndexes) ==
    IF ~FileLookupReached(wordIndexes) THEN <<>>
    ELSE LET page == IF wordIndexes[1] \in DOMAIN FilePageMap
                     THEN FilePageMap[wordIndexes[1]] ELSE 0
         IN  IF page = 0 THEN <<>>
             ELSE FileScrollToPage(shown, page, wordIndexes[1], TRUE)

InitFile ==
    /\ selectedFileId = documents[1].id
    /\ providerFileId \in FileIds \cup {NoFile}
    /\ isSwitchingFile = FALSE
    /\ hoveredBoundingBox = JNull
    /\ activeBoundingBox = JNull
    /\ effectDue = TRUE
    /\ loadState = "loading"
    /\ error = FALSE
    /\ numPages = 0
    /\ mapFile = NoFile
    /\ pageLookup = <<>>
    /\ selectedWordIndexes = <<>>
    /\ activeHighlightId = NoId
    /\ timers = <<>>
    /\ zoom = ZoomDefault
    /\ pageMetadata = <<>>
    /\ pagesLoaded = FALSE
    /\ rendering = "off"
    /\ clickedHighlightId = NoId
    /\ pulseHighlightId = NoId
    /\ scrollRequest = <<>>
    /\ MergeIdle
    /\ NormIdle
    /\ LineIdle

\* What every step of this specification leaves alone.
FileUntouched ==
    /\ UNCHANGED <<hoveredBoundingBox, activeBoundingBox, zoom, rendering,
                   clickedHighlightId, pulseHighlightId>>
    /\ UNCHANGED <<mergeVars, normVars, lineVars>>

\* No effect is waiting and the "Loading document..." cover is not up: the
\* panels and the dropdown can be used.
FileReady == ~effectDue /\ ~isSwitchingFile

\* onSelect of FileSelectorDropdown: both ids are set in one batch, and the
\* re-render hands the viewer the new document, whose load effect starts.
SelectFile(id) ==
    /\ FileReady
    /\ selectedFileId' = id
    /\ providerFileId' = id
    /\ effectDue' = (id # selectedFileId \/ id # selectedDocument.id)
    /\ IF id # selectedDocument.id
       THEN loadState' = "loading" /\ error' = FALSE
       ELSE UNCHANGED <<loadState, error>>
    /\ pageLookup' = <<>>
    /\ scrollRequest' = <<>>
    /\ UNCHANGED <<isSwitchingFile, numPages, mapFile, selectedWordIndexes,
                   activeHighlightId, timers, pageMetadata, pagesLoaded>>
    /\ FileUntouched

\* The "Reset highlights and scroll when file changes" effect.  Its first
\* branch needs a selectedFileId that is not among the documents, which
\* does not happen while the documents stay as they are.
FileEffect ==
    /\ effectDue
    /\ IF selectedFileId # selectedFile.id
       THEN /\ isSwitchingFile' = TRUE
            /\ providerFileId' = selectedFileId
            /\ selectedWordIndexes' = <<>>
            /\ activeHighlightId' = NoId
            /\ timers' = Append(timers, Timer("switch", 0))
            /\ loadState' = "loading"
            /\ error' = FALSE
            /\ effectDue' = TRUE
       ELSE /\ effectDue' = FALSE
            /\ UNCHANGED <<isSwitchingFile, providerFileId, selectedWordIndexes,
                           activeHighlightId, timers, loadState, error>>
    /\ pageLookup' = <<>>
    /\ scrollRequest' = <<>>
    /\ UNCHANGED <<selectedFileId, numPages, mapFile, pageMetadata, pagesLoaded>>
    /\ FileUntouched

\* handleWordIndexHover from a panel of the displayed document.
FileHover(wordIndexes) ==
    /\ FileReady
    /\ selectedWordIndexes' = wordIndexes
    /\ pageLookup' = <<>>
    /\ scrollRequest' = <<>>
    /\ UNCHANGED <<selectedFileId, providerFileId, isSwitchingFile, effectDue,
                   loadState, error, numPages, mapFile, activeHighlightId,
                   timers, pageMetadata, pagesLoaded>>
    /\ FileUntouched

\* handleWordIndexClick from a panel of the displayed document.
FileClick(wordIndexes) ==
    /\ FileReady
    /\ Len(TimersOf("decay")) < MaxPendingClicks
    /\ selectedWordIndexes' = wordIndexes
    /\ activeHighlightId' = HighlightId
    /\ pageLookup' = IF FileLookupReached(wordIndexes)
                     THEN <<[key |-> wordIndexes[1], mapOf |-> mapFile,
                             shown |-> selectedDocument.id]>>
                     ELSE <<>>
    /\ scrollRequest' = FileScrollToHighlight(selectedDocument.id, wordIndexes)
    /\ timers' = Append(timers, Timer("decay", 0))
    /\ UNCHANGED <<selectedFileId, providerFileId, isSwitchingFile, effectDue,
                   loadState, error, numPages, mapFile, pageMetadata, pagesLoaded>>
    /\ FileUntouched

\* setTimeout(() => setActiveHighlightId(null), 2000) comes due.
FileDecay ==
    /\ ~effectDue
    /\ \E i \in 1..Len(timers) :
          /\ timers[i].kind = "decay"
          /\ timers' = RemoveAt(timers, i)
    /\ activeHighlightId' = NoId
    /\ pageLookup' = <<>>
    /\ scrollRequest' = <<>>
    /\ UNCHANGED <<selectedFileId, providerFileId, isSwitchingFile, effectDue,
                   loadState, error, numPages, mapFile, selectedWordIndexes,
                   pageMetadata, pagesLoaded>>
    /\ FileUntouched

\* The 100 ms callback of the effect: scrollToPage(1), cover down.
FileSwitched ==
    /\ ~effectDue
    /\ \E i \in 1..Len(timers) :
          /\ timers[i].kind = "switch"
          /\ timers' = RemoveAt(timers, i)
    /\ scrollRequest' = FileScrollToPage(selectedDocument.id, 1, 0, FALSE)
    /\ isSwitchingFile' = FALSE
    /\ pageLookup' = <<>>
    /\ UNCHANGED <<selectedFileId, providerFileId, effectDue, loadState, error,
                   numPages, mapFile, selectedWordIndexes, activeHighlightId,
                   pageMetadata, pagesLoaded>>
    /\ FileUntouched

\* loadPDF after "await loadingTask.promise": the document is in, the map
\* of its boundingBoxes replaces the one in wordIndexToPageMapRef.
LoadDocument ==
    /\ ~effectDue
    /\ loadState = "loading"
    /\ loadState' = "document"
    /\ numPages' = Len(PageSizes)
    /\ pagesLoaded' = FALSE
    /\ mapFile' = IF Truthy(selectedDocument.boundingBoxes)
                  THEN selectedDocument.id ELSE mapFile
    /\ pageLookup' = <<>>
    /\ scrollRequest' = <<>>
    /\ UNCHANGED <<selectedFileId, providerFileId, isSwitchingFile, effectDue,
                   error, selectedWordIndexes, activeHighlightId, timers,
                   pageMetadata>>
    /\ FileUntouched

\* loadPDF after its getPage loop: setPageMetadata.
LoadMetadata ==
    /\ ~effectDue
    /\ loadState = "document"
    /\ loadState' = "loaded"
    /\ pageMetadata' = MetaOf(PageSizes, 100)
    /\ pageLookup' = <<>>
    /\ scrollRequest' = <<>>
    /\ UNCHANGED <<selectedFileId, providerFileId, isSwitchingFile, effectDue,
                   error, numPages, mapFile, selectedWordIndexes,
                   activeHighlightId, timers, pagesLoaded>>
    /\ FileUntouched

\* The render effect has drawn the pages: setPagesLoaded(true).
LoadRendered ==
    /\ ~effectDue
    /\ loadState = "loaded"
    /\ ~pagesLoaded
    /\ pagesLoaded' = TRUE
    /\ pageLookup' = <<>>
    /\ scrollRequest' = <<>>
    /\ UNCHANGED <<selectedFileId, providerFileId, isSwitchingFile, effectDue,
                   loadState, error, numPages, mapFile, selectedWordIndexes,
                   activeHighlightId, timers, pageMetadata>>
    /\ FileUntouched

\* loadPDF's catch: the load of the displayed document failed.
LoadFailed ==
    /\ ~effectDue
    /\ loadState = "loading"
    /\ loadState' = "failed"
    /\ error' = TRUE
    /\ pageLookup' = <<>>
    /\ scrollRequest' = <<>>
    /\ UNCHANGED <<selectedFileId, providerFileId, isSwitchingFile, effectDue,
                   numPages, mapFile, selectedWordIndexes, activeHighlightId,
                   timers, pageMetadata, pagesLoaded>>
    /\ FileUntouched

SelectFileStep == \E id \in FileIds : SelectFile(id)
FileHoverStep == \E wordIndexes \in selectedDocument.keys \cup {<<>>} : FileHover(wordIndexes)
FileClickStep == \E wordIndexes \in selectedDocument.keys : FileClick(wordIndexes)

NextFile ==
    \/ SelectFileStep
    \/ FileEffect
    \/ FileHoverStep
    \/ FileClickStep
    \/ FileDecay
    \/ FileSwitched
    \/ LoadDocument
    \/ LoadMetadata
    \/ LoadRendered
    \/ LoadFailed

SpecFile == InitFile /\ [][NextFile]_vars

(***************************************************************************)
(* Claims about the highlight selection controller                         *)
(***************************************************************************)
\* C1: token guard.  When a decay callback runs while the decay of a later
\* click is still pending, the later click's highlight stays active: the
\* stale callback leaves activeHighlightId as it is, and set.
C1_TokenGuard ==
    [][(FireDecay /\ Len(TimersOf("decay")) > 1)
        => (activeHighlightId' = activeHighlightId /\ activeHighlightId' # NoId)]_vars

\* The merged boxes of the selection, in source pixels.
SelectionBoxes == mergeBoxes(wordIndexesToBoxes(OverlayProps))

\* x * zoom, y * zoom + offsets[page - 1], width * zoom, height * zoom.
ScaledOnly(h) ==
    [h EXCEPT !.x = h.x * zoom,
              !.y = h.y * zoom + OffsetAt(pageMetadata, h.page - 1),
              !.width = h.width * zoom,
              !.height = h.height * zoom]

ScaledOnlyList(rects) ==
    /\ Len(rects) = Len(SelectionBoxes)
    /\ \A k \in 1..Len(rects) :
          SelectionBoxes[k].page <= Len(pageMetadata)
          => rects[k] = ScaledOnly(SelectionBoxes[k])

\* C2: an object-form box on a page that has a viewport is emitted as
\* x*zoom, y*zoom + offsets[page-1], width*zoom, height*zoom, with no
\* vertical flip; with words 0 and 1 selected at zoom 100% the one rectangle
\* drawn is x=10, y=20, width=80, height=20 on page 1.
C2_ObjectBoxNoFlip ==
    /\ PreviewRects # <<>> => ScaledOnlyList(PreviewRects)
    /\ ActiveRects # <<>> => ScaledOnlyList(ActiveRects)
    /\ (OverlayMounted /\ selectedWordIndexes = <<0, 1>> /\ zoom = 100
          /\ pageMetadata = MetaOf(PageSizes, 100))
       => LET rects == PreviewRects \o ActiveRects
          IN  /\ Len(rects) = 1
              /\ rects[1].x = 1000 /\ rects[1].y = 2000
              /\ rects[1].width = 8000 /\ rects[1].height = 2000
              /\ rects[1].page = 1

\* The selection without the keys whose record names a page that has no
\* viewport.
HasViewport(key) ==
    LET map == buildIndexLookup(Document).map
    IN  key \in DOMAIN map => map[key].page <= Len(pageMetadata)

PropsWithoutUnviewable ==
    [OverlayProps EXCEPT !.selectedIndexes = SelectSeq(@, LAMBDA key : HasViewport(key))]

\* C7: null propagation.  A selected key whose record names a page beyond
\* the viewports puts no rectangle into the preview or the active layer, and
\* the rectangles of the other keys are those drawn without that key.
C7_NullPropagation ==
    OverlayMounted
    => /\ PreviewRects = previewHighlights(PropsWithoutUnviewable)
       /\ ActiveRects = activeHighlights(PropsWithoutUnviewable)

\* C9: while a clicked highlight is showing, a hover (hover-out included)
\* changes neither the active keys nor the active rectangles.
C9_HoverKeepsActive ==
    [][(HoverStep /\ activeHighlightId # NoId /\ ActiveRects # <<>>)
        => (selectedWordIndexes' = selectedWordIndexes
            /\ ActiveRects' = ActiveRects)]_vars

\* C10: in every reachable state in which the active rectangle list is
\* non-empty, the preview rectangle list is empty.
C10_ActiveExcludesPreview == ActiveRects # <<>> => PreviewRects = <<>>

\* A click on words 0 and 1 is showing its active rectangle.
C10_Witness ==
    /\ activeHighlightId = HighlightId
    /\ selectedWordIndexes = <<0, 1>>
    /\ Len(ActiveRects) = 1
    /\ PreviewRects = <<>>

\* No highlight is in the active state: neither a click in a panel nor a
\* click on a rectangle is in effect.
NoActiveShowing == activeHighlightId = NoId /\ clickedHighlightId = NoId

\* The overlay's positioned rectangles for the selected keys, whichever
\* layer draws them.
RectsOfSelection ==
    IF OverlayMounted THEN positionedHighlights(OverlayProps) ELSE <<>>

\* C11: when no active highlight is showing, a hover makes its keys the
\* selected keys (replacing any earlier hover) and leaves nothing active;
\* and whenever nothing is active, the preview layer shows the rectangles of
\* exactly the selected keys and the active layer none, so after a hover
\* with null or no keys the preview rectangle list is empty.
C11_HoverSetsPreview ==
    /\ [][\A keys \in KeyLists \cup {<<>>} :
            (Hover(keys) /\ NoActiveShowing)
            => (selectedWordIndexes' = keys /\ NoActiveShowing')]_vars
    /\ [](NoActiveShowing
          => /\ PreviewRects = RectsOfSelection
             /\ ActiveRects = <<>>
             /\ (selectedWordIndexes = <<>> => PreviewRects = <<>>))

\* Words 0 and 1 are hovered with nothing active: one preview rectangle.
C11_Witness ==
    /\ NoActiveShowing
    /\ selectedWordIndexes = <<0, 1>>
    /\ Len(PreviewRects) = 1
    /\ ActiveRects = <<>>

\* A step in which handleWordIndexClick runs: it alone adds a decay timer.
ClickOccurs == Len(TimersOf("decay")') > Len(TimersOf("decay"))

\* A step in which handleHighlightClick runs: it alone adds a pulse timer.
HighlightClickOccurs == Len(TimersOf("pulse")') > Len(TimersOf("pulse"))

\* C12: a click's decay timer fires and clears the active highlight, which
\* leaves the controller Idle or Previewing (nothing active, the selection
\* kept); once clicks stop, the highlight is cleared for good and no active
\* rectangle stays on screen; the active state never lasts forever.
C12_ActiveDecays ==
    /\ [][FireDecay => (activeHighlightId' = NoId
                        /\ selectedWordIndexes' = selectedWordIndexes)]_vars
    /\ (<>[][~ClickOccurs]_vars => <>[](activeHighlightId = NoId))
    /\ (<>[][~ClickOccurs /\ ~HighlightClickOccurs]_vars
           => <>[](ActiveRects = <<>>))
    /\ ((activeHighlightId # NoId) ~> (activeHighlightId = NoId))

\* A click's highlight is showing and its decay timer, the only one, is due.
C12_Witness ==
    /\ activeHighlightId = HighlightId
    /\ TimersOf("decay") = <<Timer("decay", 0)>>
    /\ ActiveRects # <<>>

\* C13: a hover that arrives while a click's decay timer is pending is
\* applied (the selection becomes that hover's keys, the pending timers are
\* left alone), and a decay timer that fires later keeps the selection.
C13_HoverDuringDecay ==
    [][/\ \A keys \in KeyLists \cup {<<>>} :
             (Hover(keys) /\ TimersOf("decay") # <<>>)
             => (selectedWordIndexes' = keys /\ timers' = timers)
       /\ FireDecay => selectedWordIndexes' = selectedWordIndexes]_vars

\* A hover-out arrived after a click whose decay timer is still pending: the
\* selection is empty although the click's highlight id is still set.
C13_Witness ==
    /\ TimersOf("decay") # <<>>
    /\ activeHighlightId = HighlightId
    /\ selectedWordIndexes = <<>>

\* Some rectangle is handed to the drawing layer.
RectsDrawn == PreviewRects # <<>> \/ ActiveRects # <<>>

\* The zoom and every page's metadata come from the same render pass.
SameRenderPass == \A i \in 1..Len(pageMetadata) : pageMetadata[i].scale = zoom

\* C14: whenever highlight rectangles are handed to the drawing layer, the
\* zoom they are scaled by and the page metadata they are placed with belong
\* to the same render pass (every page's metadata scale is the zoom), also
\* between a zoom change and the end of the re-render.
C14_SameRenderPass == RectsDrawn => SameRenderPass

\* handleWordIndexClick has just run and asked the viewer to scroll: its
\* decay timer is the newest timer and a scroll request is out.
AfterClickScroll ==
    /\ scrollRequest # <<>>
    /\ timers # <<>>
    /\ timers[Len(timers)] = Timer("decay", DecayDelay)

\* The rectangle the overlay draws for one key under the current zoom and
\* metadata (its y includes the page's cumulative offset).
RectsOfKey(key) ==
    positionedHighlights(
        [bb |-> Document, selectedIndexes |-> <<key>>,
         activeLineNumbers |-> <<>>, zoom |-> zoom, meta |-> pageMetadata,
         activeHighlightId |-> NoId, clickedHighlightId |-> NoId])

\* C15: the scroll requested for a click goes to the y at which the overlay
\* draws the first key's rectangle (page offset plus transformed in-page y)
\* minus the lead-in margin, so the rectangle lands the lead-in distance
\* below the viewport top (a target above the document top is 0).
C15_ScrollMatchesRect ==
    AfterClickScroll
    => /\ Len(RectsOfKey(selectedWordIndexes[1])) = 1
       /\ scrollRequest[1] =
             Max(0, RectsOfKey(selectedWordIndexes[1])[1].y - WordScrollMargin)

\* Key lists to scroll to: none, one key, or a key followed by another.
ScrollKeys == {0, 2, 3, 9}
ScrollKeyLists ==
    {<<>>} \cup {<<a>> : a \in ScrollKeys}
           \cup {<<a, b>> : a \in ScrollKeys, b \in ScrollKeys}

\* The key has a geometry record whose page is one of the document's pages.
Scrollable(key) ==
    /\ key \in DOMAIN DocumentLookup
    /\ DocumentLookup[key].page \in 1..totalPages

\* handleWordIndexClick has just run: its decay timer is the newest timer.
JustClicked == timers # <<>> /\ timers[Len(timers)] = Timer("decay", DecayDelay)

UnresolvableHeight == LineTuple[4].t # "number" \/ LineTuple[4].v <= 0

\* The scroll targets that aim at a page rather than at a line.
PageLevelTargets ==
    {<<Max(0, OffsetAt(lineProps.meta, p - 1) - PageScrollMargin)>> :
        p \in 1..Len(lineProps.meta)}

\* C17: a line-tuple record whose page-height reference is zero, negative or
\* missing is unresolvable: it yields no highlight rectangle, and the viewer
\* computes no line-specific scroll target for it (at most the page-level
\* one), with no other height used in its place.
C17_UnresolvableHeight ==
    (lpc = "scrolled" /\ UnresolvableHeight)
    => /\ lineRects = <<>>
       /\ lineScroll \in {<<>>} \cup PageLevelTargets

\* What each entry contributes on its own, in processing order: the record
\* it sets (a lookup of one key) or nothing (the empty lookup).
RECURSIVE FlatContributions(_, _)
FlatContributions(ws, k) ==
    IF k > Len(ws) THEN <<>>
    ELSE <<WordEntry(ws[k], WordPage(ws[k]), <<>>)>> \o FlatContributions(ws, k + 1)

RECURSIVE PageContributions(_, _, _)
PageContributions(ws, k, pageNum) ==
    IF k > Len(ws) THEN <<>>
    ELSE <<WordEntry(ws[k], pageNum, <<>>)>> \o PageContributions(ws, k + 1, pageNum)

RECURSIVE NestedContributions(_, _)
NestedContributions(ps, k) ==
    IF k > Len(ps) THEN <<>>
    ELSE PageContributions(OrElse(Get(ps[k], "words"), JArr(<<>>)).a, 1,
                           PageNum(ps[k]))
         \o NestedContributions(ps, k + 1)

FlatOf(bb) == FlatContributions(OrElse(Get(bb, "words"), JArr(<<>>)).a, 1)
NestedOf(bb) == NestedContributions(OrElse(Get(bb, "pages"), JArr(<<>>)).a, 1)

KeysOf(cs) == UNION {DOMAIN cs[i] : i \in 1..Len(cs)}

\* The record of the last contribution for the key.
LastFor(cs, key) ==
    LET at == {i \in 1..Len(cs) : key \in DOMAIN cs[i]}
        last == CHOOSE i \in at : \A j \in at : j <= i
    IN  cs[last][key]

\* C18: last write wins. When buildIndexLookup returns, the record of every
\* key is the one built from the last entry processed for it, the flat words
\* first and the pages' words after them; so a key that occurs in a page's
\* words has the record of its last nested entry (that entry's box, the
\* enclosing page's number), whatever the flat collection said.
C18_LastWriteWins ==
    (npc = "done" /\ ~lookup.threw)
    => LET all == FlatOf(payload) \o NestedOf(payload)
       IN  /\ DOMAIN lookup.map = KeysOf(all)
           /\ \A key \in KeysOf(all) : lookup.map[key] = LastFor(all, key)
           /\ \A key \in KeysOf(NestedOf(payload)) :
                 lookup.map[key] = LastFor(NestedOf(payload), key)

\* Index 0 is in the flat words with the box at x = 10 on page 1 and in the
\* words of a page numbered 2 with the box at x = 52: the nested one is kept.
C18_Witness ==
    /\ npc = "done"
    /\ ~lookup.threw
    /\ 0 \in KeysOf(FlatOf(payload)) \cap KeysOf(NestedOf(payload))
    /\ LastFor(FlatOf(payload), 0) = [x |-> 10, y |-> 20, width |-> 40,
                                      height |-> 20, page |-> 1]
    /\ lookup.map[0] = [x |-> 52, y |-> 20, width |-> 38, height |-> 20,
                        page |-> 2]

\* The box of a word entry and whether it is in one of the accepted forms.
BboxOfWord(word) == OrElse(Get(word, "bbox"), Get(word, "bounding_box"))
ObjectForm(b) ==
    /\ b.t = "object"
    /\ DOMAIN b.f \in {{"x1", "y1", "x2", "y2"}, {"x", "y", "width", "height"},
                       {"left", "top", "right", "bottom"}}
PositionalForm(b) == b.t = "array" /\ Len(b.a) = 4
AcceptedForm(b) == ObjectForm(b) \/ PositionalForm(b)

\* The rectangle a box in an accepted form expresses; a positional array is
\* read either as corners or as origin and size.
Expressed(b) ==
    IF PositionalForm(b)
    THEN {[x |-> b.a[1].v, y |-> b.a[2].v,
           width |-> b.a[3].v - b.a[1].v, height |-> b.a[4].v - b.a[2].v],
          [x |-> b.a[1].v, y |-> b.a[2].v,
           width |-> b.a[3].v, height |-> b.a[4].v]}
    ELSE IF "x1" \in DOMAIN b.f
    THEN {[x |-> b.f.x1.v, y |-> b.f.y1.v,
           width |-> b.f.x2.v - b.f.x1.v, height |-> b.f.y2.v - b.f.y1.v]}
    ELSE IF "left" \in DOMAIN b.f
    THEN {[x |-> b.f.left.v, y |-> b.f.top.v,
           width |-> b.f.right.v - b.f.left.v,
           height |-> b.f.bottom.v - b.f.top.v]}
    ELSE {[x |-> b.f.x.v, y |-> b.f.y.v,
           width |-> b.f.width.v, height |-> b.f.height.v]}

\* The payload is one flat word with a numeric index and an accepted box.
SoleWord == payload.f.words.a[1]
SoleWordPayload ==
    /\ Len(payload.f.words.a) = 1
    /\ payload.f.pages.a = <<>>
    /\ Truthy(SoleWord) /\ TypeofObject(SoleWord)
    /\ Get(SoleWord, "index").t = "number"
    /\ AcceptedForm(BboxOfWord(SoleWord))

\* C19: a rectangle given in any accepted box form (x1/y1/x2/y2,
\* x/y/width/height, left/top/right/bottom or a 4-element positional array)
\* normalizes to the record box {x, y, width, height} of that rectangle, the
\* same for every form.
C19_FormsAgree ==
    (npc = "done" /\ SoleWordPayload)
    => /\ ~lookup.threw
       /\ SoleWord.f.index.v \in DOMAIN lookup.map
       /\ LET rec == lookup.map[SoleWord.f.index.v]
          IN  [x |-> rec.x, y |-> rec.y, width |-> rec.width,
               height |-> rec.height] \in Expressed(BboxOfWord(SoleWord))

\* A table of cumulative page offsets over the given viewports: it starts at
\* 0 and each entry adds the height of the page before it and the margin the
\* renderer puts under that page.
IsOffsetTable(offsets, viewports) ==
    /\ Len(offsets) = Len(viewports) + 1
    /\ offsets[1] = 0
    /\ \A i \in 1..Len(viewports) :
          offsets[i + 1] = offsets[i] + viewports[i].height + CanvasMarginBottom

\* C20: the viewer's getPageOffsets over the current page metadata is such a
\* table, and so is the table the overlay computes whenever it is drawn with
\* bounding boxes (its pageOffsets memo, empty only when it has no metadata
\* or no bounding boxes); so the two are equal, with the renderer's 16 px as
\* the margin.
C20_OffsetTables ==
    /\ IsOffsetTable(getPageOffsets(pageMetadata), pageMetadata)
    /\ (OverlayMounted /\ useNewAPI(OverlayProps))
       => pageOffsets(OverlayProps.meta) # <<>>
    /\ pageOffsets(OverlayProps.meta) # <<>>
       => /\ IsOffsetTable(pageOffsets(OverlayProps.meta), pageMetadata)
          /\ pageOffsets(OverlayProps.meta) = getPageOffsets(pageMetadata)

\* The overlay is drawn at zoom 125% over two pages of 1000 px: both tables
\* are [0, 1016, 2032].
C20_Witness ==
    /\ OverlayMounted
    /\ useNewAPI(OverlayProps)
    /\ zoom = 125
    /\ pageOffsets(OverlayProps.meta) = <<0, 101600, 203200>>
    /\ getPageOffsets(pageMetadata) = <<0, 101600, 203200>>

\* The rectangle r is the bounding union of the input boxes numbered in S.
IsUnionOfSet(r, S) ==
    /\ S # {}
    /\ \E i \in S : r.x = boxes[i].x
    /\ \E i \in S : r.y = boxes[i].y
    /\ \E i \in S : r.x + r.width = boxes[i].x + boxes[i].width
    /\ \E i \in S : r.y + r.height = boxes[i].y + boxes[i].height
    /\ \A i \in S : /\ r.x <= boxes[i].x
                    /\ r.y <= boxes[i].y
                    /\ boxes[i].x + boxes[i].width <= r.x + r.width
                    /\ boxes[i].y + boxes[i].height <= r.y + r.height

\* The input boxes of a page, by their positions in the input.
InputsOfPage(p) == {i \in 1..Len(boxes) : boxes[i].page = p}

\* C21: merging never crosses a page boundary: every output rectangle is the
\* bounding union of input boxes that all carry the rectangle's page, also
\* when boxes of different pages have the same or overlapping coordinates.
C21_NoCrossPageMerge ==
    mpc = "merged"
    => \A k \in 1..Len(merged) :
          \E S \in SUBSET InputsOfPage(merged[k].page) :
             IsUnionOfSet(merged[k], S)

\* Two boxes with the same coordinates on different pages stay two
\* rectangles, one per page.
C21_Witness ==
    /\ mpc = "merged"
    /\ Len(boxes) = 2
    /\ boxes[1].page # boxes[2].page
    /\ StripPage(boxes[1]) = StripPage(boxes[2])
    /\ Len(merged) = 2
    /\ merged[1].page = boxes[1].page /\ merged[2].page = boxes[2].page

\* The loop counts of the page's merge and the rectangles it produced.
CountsOfPage(p) ==
    LoopCounts(SortBoxes(BoxesOfPage(boxes, p)), 1, {},
               [merges |-> 0, passes |-> 0, outputs |-> 0])
OutputsOfPage(p) == {k \in 1..Len(merged) : merged[k].page = p}

\* C22: merge terminates, with the loops bounded by the input: on every
\* page each merge takes one more box out of those still to be processed, so
\* the rectangles of the page are its boxes minus the merges, the merges are
\* at most the page's boxes minus one, and the rescan loop runs at most once
\* per merge and once more per rectangle.
C22_MergeTerminates ==
    mpc = "merged"
    => \A p \in Pages :
          InputsOfPage(p) # {}
          => LET n == Cardinality(InputsOfPage(p))
                 c == CountsOfPage(p)
             IN  /\ c.merges <= n - 1
                 /\ Cardinality(OutputsOfPage(p)) = n - c.merges
                 /\ c.outputs = n - c.merges
                 /\ c.passes <= c.merges + c.outputs

\* Three boxes of one page were merged into one rectangle by two merges,
\* the second found only when the loop scanned again.
C22_Witness ==
    /\ mpc = "merged"
    /\ Len(boxes) = 3
    /\ Len(merged) = 1
    /\ CountsOfPage(merged[1].page).merges = 2
    /\ CountsOfPage(merged[1].page).passes = 3

\* The earlier rectangle is on a higher line than the later one, or on the
\* same line and not further right (lines told apart as the sort does).
InReadingOrder(a, b) ==
    IF SameLine(a, b) THEN a.x <= b.x ELSE a.y < b.y

\* C23: within a page the rectangles returned by merge are ordered top to
\* bottom and then left to right: of two consecutive rectangles of a page
\* the earlier is on a higher line, or on the same line and not further
\* right.
C23_ReadingOrder ==
    mpc = "merged"
    => \A k \in 1..(Len(merged) - 1) :
          merged[k].page = merged[k + 1].page
          => InReadingOrder(merged[k], merged[k + 1])

\* C24: merge of zero boxes returns the empty list, and merge of a single
\* box returns exactly one rectangle with that box's x, y, width, height and
\* page unchanged, carrying the first synthetic id of its page.
C24_ZeroAndSingle ==
    mpc = "merged"
    => /\ Len(boxes) = 0 => merged = <<>>
       /\ Len(boxes) = 1
          => /\ Len(merged) = 1
             /\ StripPage(merged[1]) = StripPage(boxes[1])
             /\ merged[1].page = boxes[1].page
             /\ merged[1].id = PageHighlightId(boxes[1].page, 0)

\* A single box on the second page, away from the origin, was merged.
C24_Witness ==
    /\ mpc = "merged"
    /\ Len(boxes) = 1
    /\ boxes[1].page = 2
    /\ boxes[1].x = 3
    /\ boxes[1].y = 1
    /\ Len(merged) = 1

\* The empty list was merged.
C24_WitnessEmpty ==
    /\ mpc = "merged"
    /\ boxes = <<>>
    /\ merged = <<>>

\* The normalized word records of the rendered document, the selected keys
\* that are among them, and the selected line numbers that have a record.
RenderedRecords == buildIndexLookup(lineProps.bb).map
PresentKeys ==
    {lineProps.selectedIndexes[i] : i \in 1..Len(lineProps.selectedIndexes)}
    \cap DOMAIN RenderedRecords
PresentLines ==
    {n \in {lineProps.activeLineNumbers[i] : i \in 1..Len(lineProps.activeLineNumbers)} :
        FindLine(lineMetadata(lineProps), 1, n) # Undefined}

Geometry(r) ==
    [x |-> r.x, y |-> r.y, width |-> r.width, height |-> r.height, page |-> r.page]

\* The rectangles the rendered line boxes give, one by one or merged.
LineDerived ==
    LET single == PositionLines(lineProps, memos.lineBoxes, 1)
        joint == PositionAll(lineProps, mergeBoxes(memos.lineBoxes), 1)
    IN  {Geometry(single[i]) : i \in 1..Len(single)}
        \cup {Geometry(joint[i]) : i \in 1..Len(joint)}

\* C26: whenever the selection resolves to at least one line-based box and
\* also to word-based boxes, every emitted rectangle, preview and active
\* alike, is derived from the line-based boxes and none from the word-based
\* ones.
C26_LinesAuthoritative ==
    (lpc = "rendered" /\ memos.lineBoxes # <<>> /\ memos.wordBoxes # <<>>)
    => /\ \A i \in 1..Len(lineRects) : Geometry(lineRects[i]) \in LineDerived
       /\ \A i \in 1..Len(memos.preview) : Geometry(memos.preview[i]) \in LineDerived

\* C27: highlights are reset when the file changes.  In every step that
\* changes the displayed document, a selection through the file selector
\* dropdown included, selectedWordIndexes is empty and activeHighlightId,
\* hoveredBoundingBox and activeBoundingBox are null once the new document
\* is shown.
C27_ResetOnFileChange ==
    [][selectedDocument.id' # selectedDocument.id
       => /\ selectedWordIndexes' = <<>>
          /\ activeHighlightId' = NoId
          /\ hoveredBoundingBox' = JNull
          /\ activeBoundingBox' = JNull]_vars

\* C30: scrollToHighlight resolves the first key's page from the payload of
\* the displayed document: whenever it looks a key up, the map it reads was
\* built from the document being displayed, also while that document's PDF
\* is loading or after its load failed.
C30_MapOfDisplayedDocument ==
    \A i \in 1..Len(pageLookup) : pageLookup[i].mapOf = pageLookup[i].shown

\* A drawn highlight has just been clicked and a scroll was requested.
AfterHighlightClick ==
    /\ scrollRequest # <<>>
    /\ timers # <<>>
    /\ timers[Len(timers)] = Timer("glow", GlowDelay)

\* C28: clicking a drawn highlight requests a scroll to max(0, rect.y - 150),
\* where rect.y is the rectangle's y in the viewport, its page's cumulative
\* offset already included: the offset is counted once whatever the page,
\* and the requested offset is never negative.
C28_HighlightClickScroll ==
    AfterHighlightClick
    => /\ scrollRequest[1] >= 0
       /\ \E k \in 1..Len(ActiveRects) :
             /\ ActiveRects[k].id = clickedHighlightId
             /\ scrollRequest = <<Max(0, ActiveRects[k].y - WordScrollMargin)>>

\* Box b lies inside rectangle r (their pages are compared apart).
LiesInside(b, r) ==
    /\ r.x <= b.x /\ r.y <= b.y
    /\ b.x + b.width <= r.x + r.width
    /\ b.y + b.height <= r.y + r.height

\* The output rectangles of its page that input box i lies inside, and the
\* input boxes that lie inside output rectangle k.
RectsAround(i) ==
    {k \in OutputsOfPage(boxes[i].page) : LiesInside(boxes[i], merged[k])}
BoxesWithin(k) ==
    {i \in InputsOfPage(merged[k].page) : LiesInside(boxes[i], merged[k])}

\* C29: merge covers its input.  Each input box lies inside exactly one
\* output rectangle of its page, every output rectangle is the bounding
\* union of the input boxes assigned to it, a page with input boxes gets at
\* least one rectangle and at most as many as it has boxes, and the ids of
\* one result are pairwise distinct.
C29_MergeCoversInput ==
    mpc = "merged"
    => /\ \A i \in 1..Len(boxes) : Cardinality(RectsAround(i)) = 1
       /\ \A k \in 1..Len(merged) : IsUnionOfSet(merged[k], BoxesWithin(k))
       /\ \A p \in Pages :
             InputsOfPage(p) # {}
             => /\ Cardinality(OutputsOfPage(p)) >= 1
                /\ Cardinality(OutputsOfPage(p)) <= Cardinality(InputsOfPage(p))
       /\ \A k, l \in 1..Len(merged) : merged[k].id = merged[l].id => k = l

====
